---- MODULE Spec2Model ----
(***************************************************************************)
(* Activity aggregation and dashboard composition of the CRM backend       *)
(* (services.userService: GetUserStats, GetRecentActivities,               *)
(* GetDashboardData) over the four repositories (contacts, tasks,          *)
(* projects, interactions).                                                *)
(*                                                                         *)
(* Time is counted in minutes.  A Go pointer / optional value is a         *)
(* sequence of length 0 (nil) or 1.  A repository query whose SQL ORDER BY *)
(* leaves ties open returns any of the tie-consistent orders, so every     *)
(* repository and service operator yields the SET of its possible results. *)
(***************************************************************************)
EXTENDS Integers, Sequences, FiniteSets, TLC

VARIABLES contacts, tasks, projects, interactions, now, resp, queries

vars == <<contacts, tasks, projects, interactions, now, resp, queries>>
(***************************************************************************)
(* Bounds of the model.                                                    *)
(***************************************************************************)
MaxTime == 2
MaxRows == 2
MaxFaults == 1
MaxBacklog == 8
MaxChars == 102

Users == {1, 2}
Limits == {-1, 0, 1, 2}
ContactNames == {"Ana"}
TaskTitles == {"Ligar"}
ProjectNames == {"Site"}
Subjects == {"Reuniao"}
DueDates == {<<>>, <<0>>}

(***************************************************************************)
(* Program constants.                                                      *)
(***************************************************************************)
Minute == 1
Day == 1440
DefaultLimit == 20
DashboardActivityLimit == 10
DashboardListLimit == 5
ActivityWindowDays == 30
StatsWindowDays == 7
StatsRecentLimit == 100
DetailMaxLength == 100
StableUpTo == 6

NoErr == [Code |-> 0, Message |-> "", Details |-> ""]
ErrInternalServer == [Code |-> 500, Message |-> "Erro interno do servidor", Details |-> ""]

(***************************************************************************)
(* Generic helpers.                                                        *)
(***************************************************************************)
Range(s) == {s[i] : i \in 1..Len(s)}

Take(s, n) == IF Len(s) > n THEN SubSeq(s, 1, n) ELSE s

SqlLimit_Unbounded(s, limit) == s

\* SQL LIMIT as the repositories apply it: only a positive limit bounds the result
SqlLimit(s, limit) == IF limit > 0 THEN Take(s, limit) ELSE s

\* lexicographic order on two-column sort keys
LexLeq(a, b) == a[1] < b[1] \/ (a[1] = b[1] /\ a[2] <= b[2])

\* every order of the rows S that respects ORDER BY key ASC, key a function on S
RECURSIVE Orderings(_, _)
Orderings(S, key) ==
    IF S = {} THEN {<<>>}
    ELSE UNION {{<<m>> \o t : t \in Orderings(S \ {m}, key)} :
                m \in {x \in S : \A y \in S : LexLeq(key[x], key[y])}}

(***************************************************************************)
(* Model enumerations (internal/models).                                   *)
(***************************************************************************)
ContactTypeClient == "CLIENT"
ContactTypeLead == "LEAD"
TaskStatusPending == "PENDING"
TaskStatusCompleted == "COMPLETED"
PriorityLow == "LOW"
PriorityMedium == "MEDIUM"
PriorityHigh == "HIGH"
ProjectStatusInProgress == "IN_PROGRESS"
ProjectStatusCompleted == "COMPLETED"
ProjectStatusCancelled == "CANCELLED"
InteractionTypeCall == "CALL"

ActivityTypeTask == "TASK"
ActivityTypeProject == "PROJECT"
ActivityTypeContact == "CONTACT"
ActivityTypeInteraction == "INTERACTION"
ActionCreated == "CREATED"
ActionUpdated == "UPDATED"
ActionCompleted == "COMPLETED"
ActionStarted == "STARTED"
ActionCancelled == "CANCELLED"

\* collation of the names the model uses (ORDER BY name ASC)
Collation == <<"", "Ana", "Bia">>
NameRank(n) == CHOOSE i \in 1..Len(Collation) : Collation[i] = n

\* the zero value of models.Contact, what a Preload leaves when the row is missing
ZeroContact ==
    [ID |-> 0, Name |-> "", Type |-> "", Notes |-> <<>>, UserID |-> 0,
     CreatedAt |-> 0, UpdatedAt |-> 0]

(***************************************************************************)
(* Repositories.  Tables are sequences, a row's ID is its index            *)
(* (auto-increment primary key).                                           *)
(***************************************************************************)
PreloadContact(id) == IF id \in 1..Len(contacts) THEN contacts[id] ELSE ZeroContact

\* Preload of a pointer association: nil when the foreign key is nil or dangling
PreloadContactPtr(ref) ==
    IF ref # <<>> /\ ref[1] \in 1..Len(contacts) THEN <<contacts[ref[1]]>> ELSE <<>>

PreloadProjectPtr(ref) ==
    IF ref # <<>> /\ ref[1] \in 1..Len(projects) THEN <<projects[ref[1]]>> ELSE <<>>

WithContact(i) ==
    [ID |-> i.ID, Type |-> i.Type, Date |-> i.Date, Subject |-> i.Subject,
     Description |-> i.Description, ContactID |-> i.ContactID,
     CreatedAt |-> i.CreatedAt, UpdatedAt |-> i.UpdatedAt,
     Contact |-> PreloadContact(i.ContactID)]

WithContactAndProject(t) ==
    [ID |-> t.ID, Title |-> t.Title, Description |-> t.Description,
     DueDate |-> t.DueDate, Priority |-> t.Priority, Status |-> t.Status,
     UserID |-> t.UserID, ContactID |-> t.ContactID, ProjectID |-> t.ProjectID,
     CreatedAt |-> t.CreatedAt, UpdatedAt |-> t.UpdatedAt,
     Contact |-> PreloadContactPtr(t.ContactID),
     Project |-> PreloadProjectPtr(t.ProjectID)]

WithClient(p) ==
    [ID |-> p.ID, Name |-> p.Name, Description |-> p.Description,
     Status |-> p.Status, UserID |-> p.UserID, ClientID |-> p.ClientID,
     CreatedAt |-> p.CreatedAt, UpdatedAt |-> p.UpdatedAt,
     Client |-> PreloadContact(p.ClientID)]

\* contactRepository.GetByUserID: WHERE user_id [AND type] LIMIT ORDER BY name ASC
contactRepo_GetByUserID(userID, filter) ==
    LET rows == {c \in Range(contacts) :
                    c.UserID = userID /\ (filter.Type = "" \/ c.Type = filter.Type)}
        key == [c \in rows |-> <<NameRank(c.Name), 0>>]
    IN {SqlLimit(s, filter.Limit) : s \in Orderings(rows, key)}

contactRepo_CountByUserID(userID) ==
    Cardinality({c \in Range(contacts) : c.UserID = userID})

contactRepo_CountByType(userID, contactType) ==
    Cardinality({c \in Range(contacts) : c.UserID = userID /\ c.Type = contactType})

\* CASE WHEN priority = 'HIGH' THEN 1 WHEN priority = 'MEDIUM' THEN 2 ELSE 3 END
PriorityRank(p) == IF p = PriorityHigh THEN 1 ELSE IF p = PriorityMedium THEN 2 ELSE 3

\* ORDER BY <priority case>, due_date ASC (a NULL due_date sorts last)
TaskSortKey(t) ==
    <<PriorityRank(t.Priority),
      IF t.DueDate = <<>> THEN MaxTime + Day + 1 ELSE t.DueDate[1]>>

\* taskRepository.GetByUserID
taskRepo_GetByUserID(userID, filter) ==
    LET rows == {WithContactAndProject(t) : t \in
                    {t \in Range(tasks) :
                        t.UserID = userID /\ (filter.Status = "" \/ t.Status = filter.Status)}}
        key == [t \in rows |-> TaskSortKey(t)]
    IN {SqlLimit(s, filter.Limit) : s \in Orderings(rows, key)}

taskRepo_CountByUserID(userID) ==
    Cardinality({t \in Range(tasks) : t.UserID = userID})

taskRepo_CountPendingByUserID(userID) ==
    Cardinality({t \in Range(tasks) : t.UserID = userID /\ t.Status = TaskStatusPending})

\* pending tasks of the user whose due date has passed (cf. GetOverdueTasks)
taskRepo_CountOverdueByUserID(userID) ==
    Cardinality({t \in Range(tasks) :
                    /\ t.UserID = userID
                    /\ t.Status = TaskStatusPending
                    /\ t.DueDate # <<>>
                    /\ t.DueDate[1] < now})

\* projectRepository.GetByUserID: ORDER BY created_at DESC
projectRepo_GetByUserID(userID, filter) ==
    LET rows == {WithClient(p) : p \in
                    {p \in Range(projects) :
                        p.UserID = userID /\ (filter.Status = "" \/ p.Status = filter.Status)}}
        key == [p \in rows |-> <<0 - p.CreatedAt, 0>>]
    IN {SqlLimit(s, filter.Limit) : s \in Orderings(rows, key)}

projectRepo_CountByUserID(userID) ==
    Cardinality({p \in Range(projects) : p.UserID = userID})

projectRepo_CountByStatus(userID, status) ==
    Cardinality({p \in Range(projects) : p.UserID = userID /\ p.Status = status})

InteractionsOfUser_Unscoped(userID) == Range(interactions)

\* JOIN contacts ON interactions.contact_id = contacts.id WHERE contacts.user_id = ?
InteractionsOfUser(userID) ==
    {i \in Range(interactions) :
        i.ContactID \in 1..Len(contacts) /\ contacts[i.ContactID].UserID = userID}

\* interactionRepository.GetByUserID: ORDER BY interactions.date DESC
interactionRepo_GetByUserID(userID, filter) ==
    LET rows == {WithContact(i) : i \in InteractionsOfUser(userID)}
        key == [i \in rows |-> <<0 - i.Date, 0>>]
    IN {SqlLimit(s, filter.Limit) : s \in Orderings(rows, key)}

\* interactionRepository.GetRecentByUserID: date >= now - days, ORDER BY date DESC
interactionRepo_GetRecentByUserID(userID, days, limit) ==
    LET startDate == now - days * Day
        rows == {WithContact(i) : i \in
                    {i \in InteractionsOfUser(userID) : i.Date >= startDate}}
        key == [i \in rows |-> <<0 - i.Date, 0>>]
    IN {SqlLimit(s, limit) : s \in Orderings(rows, key)}

(***************************************************************************)
(* Activity derivation (services/user_service.go).                         *)
(***************************************************************************)
\* A Go string is a sequence of bytes, the UTF-8 encoding of its text: the bytes
\* of one code point (one byte below 128, two bytes below 2048)
EncodeRune(r) == IF r < 128 THEN <<r>> ELSE <<192 + (r \div 64), 128 + (r % 64)>>

\* the bytes of a text given as a sequence of code points
RECURSIVE Encode(_)
Encode(text) == IF text = <<>> THEN <<>> ELSE EncodeRune(Head(text)) \o Encode(Tail(text))

\* the bytes of "..."
Ellipsis == <<46, 46, 46>>

\* len(s) counts bytes and s[:n] cuts bytes
truncateString(s, maxLength) ==
    IF Len(s) <= maxLength THEN s ELSE SubSeq(s, 1, maxLength - 3) \o Ellipsis

createActivityFromInteraction(interaction) ==
    [ID |-> interaction.ID,
     Type |-> ActivityTypeInteraction,
     Action |-> ActionCreated,
     Title |-> IF interaction.Subject = "" THEN "Interação sem assunto"
               ELSE interaction.Subject,
     Detail |-> truncateString(interaction.Description, DetailMaxLength),
     ItemID |-> interaction.ID,
     CreatedAt |-> interaction.CreatedAt,
     UpdatedAt |-> interaction.UpdatedAt,
     RelatedID |-> <<interaction.ContactID>>,
     RelatedName |-> IF interaction.Contact.Name # "" THEN <<interaction.Contact.Name>>
                     ELSE <<>>]

createActivityFromTask_ProjectFirst(task) ==
    LET viaContact == task.ContactID # <<>> /\ task.Contact # <<>> /\ task.Contact[1].Name # ""
        viaProject == task.ProjectID # <<>> /\ task.Project # <<>> /\ task.Project[1].Name # ""
    IN [ID |-> task.ID,
        Type |-> ActivityTypeTask,
        Action |-> IF task.Status = TaskStatusCompleted THEN ActionCompleted ELSE ActionCreated,
        Title |-> IF task.Title = "" THEN "Tarefa sem título" ELSE task.Title,
        Detail |-> truncateString(task.Description, DetailMaxLength),
        ItemID |-> task.ID,
        CreatedAt |-> task.CreatedAt,
        UpdatedAt |-> task.UpdatedAt,
        RelatedID |-> IF viaProject THEN task.ProjectID
                      ELSE IF viaContact THEN task.ContactID ELSE <<>>,
        RelatedName |-> IF viaProject THEN <<task.Project[1].Name>>
                        ELSE IF viaContact THEN <<task.Contact[1].Name>> ELSE <<>>]

createActivityFromTask(task) ==
    LET viaContact == task.ContactID # <<>> /\ task.Contact # <<>> /\ task.Contact[1].Name # ""
        viaProject == task.ProjectID # <<>> /\ task.Project # <<>> /\ task.Project[1].Name # ""
    IN [ID |-> task.ID,
        Type |-> ActivityTypeTask,
        Action |-> IF task.Status = TaskStatusCompleted THEN ActionCompleted ELSE ActionCreated,
        Title |-> IF task.Title = "" THEN "Tarefa sem título" ELSE task.Title,
        Detail |-> truncateString(task.Description, DetailMaxLength),
        ItemID |-> task.ID,
        CreatedAt |-> task.CreatedAt,
        UpdatedAt |-> task.UpdatedAt,
        RelatedID |-> IF viaContact THEN task.ContactID
                      ELSE IF viaProject THEN task.ProjectID ELSE <<>>,
        RelatedName |-> IF viaContact THEN <<task.Contact[1].Name>>
                        ELSE IF viaProject THEN <<task.Project[1].Name>> ELSE <<>>]

createActivityFromProject_RawName(project) ==
    LET hasClient == project.ClientID # 0 /\ project.Client.Name # ""
    IN [ID |-> project.ID,
        Type |-> ActivityTypeProject,
        Action |-> CASE project.Status = ProjectStatusInProgress -> ActionStarted
                     [] project.Status = ProjectStatusCompleted -> ActionCompleted
                     [] project.Status = ProjectStatusCancelled -> ActionCancelled
                     [] OTHER -> ActionCreated,
        Title |-> project.Name,
        Detail |-> truncateString(project.Description, DetailMaxLength),
        ItemID |-> project.ID,
        CreatedAt |-> project.CreatedAt,
        UpdatedAt |-> project.UpdatedAt,
        RelatedID |-> IF hasClient THEN <<project.ClientID>> ELSE <<>>,
        RelatedName |-> IF hasClient THEN <<project.Client.Name>> ELSE <<>>]

createActivityFromProject(project) ==
    LET hasClient == project.ClientID # 0 /\ project.Client.Name # ""
    IN [ID |-> project.ID,
        Type |-> ActivityTypeProject,
        Action |-> CASE project.Status = ProjectStatusInProgress -> ActionStarted
                     [] project.Status = ProjectStatusCompleted -> ActionCompleted
                     [] project.Status = ProjectStatusCancelled -> ActionCancelled
                     [] OTHER -> ActionCreated,
        Title |-> IF project.Name = "" THEN "Projeto sem nome" ELSE project.Name,
        Detail |-> truncateString(project.Description, DetailMaxLength),
        ItemID |-> project.ID,
        CreatedAt |-> project.CreatedAt,
        UpdatedAt |-> project.UpdatedAt,
        RelatedID |-> IF hasClient THEN <<project.ClientID>> ELSE <<>>,
        RelatedName |-> IF hasClient THEN <<project.Client.Name>> ELSE <<>>]

createActivityFromContact_ModifiedTime(contact) ==
    [ID |-> contact.ID,
     Type |-> ActivityTypeContact,
     Action |-> ActionCreated,
     Title |-> IF contact.Name = "" THEN "Contato sem nome" ELSE contact.Name,
     Detail |-> truncateString(contact.Notes, DetailMaxLength),
     ItemID |-> contact.ID,
     CreatedAt |-> contact.UpdatedAt,
     UpdatedAt |-> contact.UpdatedAt,
     RelatedID |-> <<>>,
     RelatedName |-> <<>>]

createActivityFromContact(contact) ==
    [ID |-> contact.ID,
     Type |-> ActivityTypeContact,
     Action |-> ActionCreated,
     Title |-> IF contact.Name = "" THEN "Contato sem nome" ELSE contact.Name,
     Detail |-> truncateString(contact.Notes, DetailMaxLength),
     ItemID |-> contact.ID,
     CreatedAt |-> contact.CreatedAt,
     UpdatedAt |-> contact.UpdatedAt,
     RelatedID |-> <<>>,
     RelatedName |-> <<>>]

UpdatedAfterCreation_AnyChange(record) == record.UpdatedAt > record.CreatedAt

\* record.UpdatedAt.After(record.CreatedAt.Add(time.Minute))
UpdatedAfterCreation(record) == record.UpdatedAt > record.CreatedAt + Minute

Restamped_CreationTime(createActivity, action, record) ==
    [createActivity EXCEPT !.Action = action]

\* a copy of the creation activity re-stamped with the modification time
Restamped(createActivity, action, record) ==
    [createActivity EXCEPT !.Action = action,
                           !.CreatedAt = record.UpdatedAt,
                           !.UpdatedAt = record.UpdatedAt]

InteractionActivities_Unguarded(interaction) ==
    LET createActivity == createActivityFromInteraction(interaction)
    IN <<createActivity, Restamped(createActivity, ActionUpdated, interaction)>>

\* body of the loop over interactions
InteractionActivities(interaction) ==
    LET createActivity == createActivityFromInteraction(interaction)
    IN <<createActivity>>
       \o (IF UpdatedAfterCreation(interaction)
           THEN <<Restamped(createActivity, ActionUpdated, interaction)>> ELSE <<>>)

TaskActivities_Exclusive(task) ==
    LET createActivity == [createActivityFromTask(task) EXCEPT !.Action = ActionCreated]
    IN <<createActivity>>
       \o (IF task.Status = TaskStatusCompleted
           THEN <<Restamped(createActivity, ActionCompleted, task)>>
           ELSE IF UpdatedAfterCreation(task)
           THEN <<Restamped(createActivity, ActionUpdated, task)>> ELSE <<>>)

TaskActivities_Folded(task) ==
    LET createActivity == createActivityFromTask(task)
    IN <<createActivity>>
       \o (IF UpdatedAfterCreation(task)
           THEN <<Restamped(createActivity, ActionUpdated, task)>> ELSE <<>>)
       \o (IF task.Status = TaskStatusCompleted
           THEN <<Restamped(createActivity, ActionCompleted, task)>> ELSE <<>>)

TaskActivities_CompletionGuarded(task) ==
    LET createActivity == [createActivityFromTask(task) EXCEPT !.Action = ActionCreated]
    IN <<createActivity>>
       \o (IF UpdatedAfterCreation(task)
           THEN <<Restamped(createActivity, ActionUpdated, task)>> ELSE <<>>)
       \o (IF task.Status = TaskStatusCompleted /\ UpdatedAfterCreation(task)
           THEN <<Restamped(createActivity, ActionCompleted, task)>> ELSE <<>>)

\* body of the loop over tasks
TaskActivities(task) ==
    LET createActivity == [createActivityFromTask(task) EXCEPT !.Action = ActionCreated]
    IN <<createActivity>>
       \o (IF UpdatedAfterCreation(task)
           THEN <<Restamped(createActivity, ActionUpdated, task)>> ELSE <<>>)
       \o (IF task.Status = TaskStatusCompleted
           THEN <<Restamped(createActivity, ActionCompleted, task)>> ELSE <<>>)

ProjectActivities_DefaultStarted(project) ==
    LET createActivity == [createActivityFromProject(project) EXCEPT !.Action = ActionCreated]
        action == CASE project.Status = ProjectStatusCompleted -> ActionCompleted
                    [] project.Status = ProjectStatusCancelled -> ActionCancelled
                    [] OTHER -> ActionStarted
    IN <<createActivity>>
       \o (IF UpdatedAfterCreation(project)
           THEN <<Restamped(createActivity, action, project)>> ELSE <<>>)

ProjectActivities_Folded(project) ==
    LET createActivity == createActivityFromProject(project)
        action == CASE project.Status = ProjectStatusInProgress -> ActionStarted
                    [] project.Status = ProjectStatusCompleted -> ActionCompleted
                    [] project.Status = ProjectStatusCancelled -> ActionCancelled
                    [] OTHER -> ActionUpdated
    IN <<createActivity>>
       \o (IF UpdatedAfterCreation(project)
           THEN <<Restamped(createActivity, action, project)>> ELSE <<>>)

\* body of the loop over projects
ProjectActivities(project) ==
    LET createActivity == [createActivityFromProject(project) EXCEPT !.Action = ActionCreated]
        action == CASE project.Status = ProjectStatusInProgress -> ActionStarted
                    [] project.Status = ProjectStatusCompleted -> ActionCompleted
                    [] project.Status = ProjectStatusCancelled -> ActionCancelled
                    [] OTHER -> ActionUpdated
    IN <<createActivity>>
       \o (IF UpdatedAfterCreation(project)
           THEN <<Restamped(createActivity, action, project)>> ELSE <<>>)

\* body of the loop over contacts
ContactActivities(contact) ==
    LET createActivity == createActivityFromContact(contact)
    IN <<createActivity>>
       \o (IF UpdatedAfterCreation(contact)
           THEN <<Restamped(createActivity, ActionUpdated, contact)>> ELSE <<>>)

\* activities = append(activities, ...) over the loop's iterations
AppendAll(perRow) ==
    LET acc[i \in 0..Len(perRow)] == IF i = 0 THEN <<>> ELSE acc[i - 1] \o perRow[i]
    IN acc[Len(perRow)]

\* the activities slice just before sorting
DerivedActivities(interactionRows, taskRows, projectRows, contactRows) ==
    AppendAll([i \in 1..Len(interactionRows) |-> InteractionActivities(interactionRows[i])])
    \o AppendAll([i \in 1..Len(taskRows) |-> TaskActivities(taskRows[i])])
    \o AppendAll([i \in 1..Len(projectRows) |-> ProjectActivities(projectRows[i])])
    \o AppendAll([i \in 1..Len(contactRows) |-> ContactActivities(contactRows[i])])

(***************************************************************************)
(* sortActivitiesByDate: sort.Slice with less(i, j) = CreatedAt[i] is      *)
(* After CreatedAt[j].  sort.Slice promises no stability.  Every release   *)
(* of the library sorts up to StableUpTo elements with a plain insertion   *)
(* sort, which keeps equal-time elements in their order; above it the      *)
(* order of equal-time elements depends on the release (a shell pass or a  *)
(* pattern-defeating quicksort) and is left open here.                     *)
(***************************************************************************)
ActivityLess_Before(a, b) == a.CreatedAt < b.CreatedAt

ActivityLess(a, b) == a.CreatedAt > b.CreatedAt

InsertActivity(s, x) ==
    LET stops == {j \in 1..Len(s) : ~ActivityLess(x, s[j])}
        p == IF stops = {} THEN 0 ELSE CHOOSE j \in stops : \A k \in stops : k <= j
    IN SubSeq(s, 1, p) \o <<x>> \o SubSeq(s, p + 1, Len(s))

InsertionSort(s) ==
    LET acc[i \in 0..Len(s)] == IF i = 0 THEN <<>> ELSE InsertActivity(acc[i - 1], s[i])
    IN acc[Len(s)]

RunPermutations(s) ==
    {[i \in 1..Len(s) |-> s[f[i]]] :
        f \in {g \in [1..Len(s) -> 1..Len(s)] : \A i, j \in 1..Len(s) : i # j => g[i] # g[j]}}

\* length of the leading run of elements with the CreatedAt of s[1]
LeadingRun(s) ==
    CHOOSE n \in 1..Len(s) :
        /\ \A i \in 1..n : s[i].CreatedAt = s[1].CreatedAt
        /\ n = Len(s) \/ s[n + 1].CreatedAt # s[1].CreatedAt

RECURSIVE TieShuffles(_)
TieShuffles(s) ==
    IF s = <<>> THEN {<<>>}
    ELSE LET n == LeadingRun(s)
         IN {a \o b : a \in RunPermutations(SubSeq(s, 1, n)),
                      b \in TieShuffles(SubSeq(s, n + 1, Len(s)))}

sortActivitiesByDate(activities) ==
    IF Len(activities) <= StableUpTo
    THEN {InsertionSort(activities)}
    ELSE TieShuffles(InsertionSort(activities))

(***************************************************************************)
(* Repository calls as the services see them.  A call made at a site named *)
(* in faults returns an error; queries records the calls in order.         *)
(***************************************************************************)
Call(site, repo, method, userID, status, days, limit, ok) ==
    [site |-> site, repo |-> repo, method |-> method, userID |-> userID,
     status |-> status, days |-> days, limit |-> limit, ok |-> ok]

FeedSites == {"feed.interactions", "feed.tasks", "feed.projects", "feed.contacts"}

EffectiveLimit_Ten(limit) == IF limit <= 0 THEN 10 ELSE limit

\* if limit <= 0 { limit = 20 }
EffectiveLimit(limit) == IF limit <= 0 THEN DefaultLimit ELSE limit

\* the over-fetch cap handed to each source
FetchCap(limit) == limit * 2

TruncateToLimit_Tail(activities, limit) ==
    IF Len(activities) > limit
    THEN SubSeq(activities, Len(activities) - limit + 1, Len(activities))
    ELSE activities

TruncateToLimit_Keep(activities, limit) == activities

\* if len(activities) > limit { activities = activities[:limit] }
TruncateToLimit(activities, limit) ==
    IF Len(activities) > limit THEN SubSeq(activities, 1, limit) ELSE activities

RecentActivityResponse_CountAll(sorted, limit) ==
    [Activities |-> TruncateToLimit(sorted, limit), Count |-> Len(sorted)]

\* the truncation to limit and the response built from it
RecentActivityResponse(sorted, limit) ==
    [Activities |-> TruncateToLimit(sorted, limit),
     Count |-> Len(TruncateToLimit(sorted, limit))]

FeedSourceError_Named(site) == [ErrInternalServer EXCEPT !.Details = site]

\* the error of a failing source query: return nil, errors.ErrInternalServer
FeedSourceError(site) == ErrInternalServer

FeedFailure_Partial(site, calls) ==
    [err |-> NoErr, body |-> <<[Activities |-> <<>>, Count |-> 0]>>, calls |-> calls]

\* what a failing source query makes GetRecentActivities return
FeedFailure(site, calls) ==
    [err |-> FeedSourceError(site), body |-> <<>>, calls |-> calls]

\* userService.GetRecentActivities: the set of its possible results
GetRecentActivities(userID, limitArg, faults) ==
    LET limit == EffectiveLimit(limitArg)
        q1 == Call("feed.interactions", "interactionRepo", "GetRecentByUserID", userID, "",
                   ActivityWindowDays, FetchCap(limit), "feed.interactions" \notin faults)
        q2 == Call("feed.tasks", "taskRepo", "GetByUserID", userID, "", 0, FetchCap(limit),
                   "feed.tasks" \notin faults)
        q3 == Call("feed.projects", "projectRepo", "GetByUserID", userID, "", 0, FetchCap(limit),
                   "feed.projects" \notin faults)
        q4 == Call("feed.contacts", "contactRepo", "GetByUserID", userID, "", 0, FetchCap(limit),
                   "feed.contacts" \notin faults)
    IN IF ~q1.ok THEN {FeedFailure("feed.interactions", <<q1>>)}
       ELSE IF ~q2.ok THEN {FeedFailure("feed.tasks", <<q1, q2>>)}
       ELSE IF ~q3.ok THEN {FeedFailure("feed.projects", <<q1, q2, q3>>)}
       ELSE IF ~q4.ok THEN {FeedFailure("feed.contacts", <<q1, q2, q3, q4>>)}
       ELSE {[err |-> NoErr,
              body |-> <<RecentActivityResponse(sorted, limit)>>,
              calls |-> <<q1, q2, q3, q4>>] :
                sorted \in UNION {
                    sortActivitiesByDate(DerivedActivities(ir, tr, pr, cr)) :
                        ir \in interactionRepo_GetRecentByUserID(userID, ActivityWindowDays, FetchCap(limit)),
                        tr \in taskRepo_GetByUserID(userID, [Status |-> "", Limit |-> FetchCap(limit)]),
                        pr \in projectRepo_GetByUserID(userID, [Status |-> "", Limit |-> FetchCap(limit)]),
                        cr \in contactRepo_GetByUserID(userID, [Type |-> "", Limit |-> FetchCap(limit)])}}

(***************************************************************************)
(* userService.GetUserStats.  Its eleven repository calls in program       *)
(* order; failFast says whether the call's error makes GetUserStats return *)
(* (nil, ErrInternalServer) or is swallowed and leaves the counter at 0.   *)
(***************************************************************************)
StatsStep(site, repo, method, status, days, limit) ==
    [site |-> site, repo |-> repo, method |-> method, status |-> status,
     days |-> days, limit |-> limit]

StatsSteps ==
    <<StatsStep("stats.totalContacts", "contactRepo", "CountByUserID", "", 0, 0),
      StatsStep("stats.totalClients", "contactRepo", "CountByType", ContactTypeClient, 0, 0),
      StatsStep("stats.totalLeads", "contactRepo", "CountByType", ContactTypeLead, 0, 0),
      StatsStep("stats.totalTasks", "taskRepo", "CountByUserID", "", 0, 0),
      StatsStep("stats.pendingTasks", "taskRepo", "CountPendingByUserID", "", 0, 0),
      StatsStep("stats.overdueTasks", "taskRepo", "CountOverdueByUserID", "", 0, 0),
      StatsStep("stats.totalProjects", "projectRepo", "CountByUserID", "", 0, 0),
      StatsStep("stats.activeProjects", "projectRepo", "CountByStatus", ProjectStatusInProgress, 0, 0),
      StatsStep("stats.completedProjects", "projectRepo", "CountByStatus", ProjectStatusCompleted, 0, 0),
      StatsStep("stats.totalInteractions", "interactionRepo", "GetByUserID", "", 0, 0),
      StatsStep("stats.recentInteractions", "interactionRepo", "GetRecentByUserID", "",
                StatsWindowDays, StatsRecentLimit)>>

StatsSites == {StatsSteps[i].site : i \in 1..Len(StatsSteps)}

\* the number a step's query returns when it succeeds
StatsQuery(userID, site) ==
    CASE site = "stats.totalContacts" -> contactRepo_CountByUserID(userID)
      [] site = "stats.totalClients" -> contactRepo_CountByType(userID, ContactTypeClient)
      [] site = "stats.totalLeads" -> contactRepo_CountByType(userID, ContactTypeLead)
      [] site = "stats.totalTasks" -> taskRepo_CountByUserID(userID)
      [] site = "stats.pendingTasks" -> taskRepo_CountPendingByUserID(userID)
      [] site = "stats.overdueTasks" -> taskRepo_CountOverdueByUserID(userID)
      [] site = "stats.totalProjects" -> projectRepo_CountByUserID(userID)
      [] site = "stats.activeProjects" -> projectRepo_CountByStatus(userID, ProjectStatusInProgress)
      [] site = "stats.completedProjects" -> projectRepo_CountByStatus(userID, ProjectStatusCompleted)
      [] site = "stats.totalInteractions" -> Cardinality(InteractionsOfUser(userID))
      [] site = "stats.recentInteractions" ->
            Len(CHOOSE rows \in interactionRepo_GetRecentByUserID(
                    userID, StatsWindowDays, StatsRecentLimit) : TRUE)

StatsFailFast_Never(site) == FALSE

\* whether the step's error makes GetUserStats return: the overdue count and the
\* recent-interactions query only log a warning
StatsFailFast(site) == site \notin {"stats.overdueTasks", "stats.recentInteractions"}

StatsAbort_Degraded(calls) ==
    [err |-> NoErr,
     body |-> <<[TotalContacts |-> 0, TotalClients |-> 0, TotalLeads |-> 0,
                 TotalTasks |-> 0, PendingTasks |-> 0, CompletedTasks |-> 0,
                 OverdueTasks |-> 0, TotalProjects |-> 0, ActiveProjects |-> 0,
                 CompletedProjects |-> 0, TotalInteractions |-> 0,
                 RecentInteractions |-> 0]>>,
     calls |-> calls]

\* what a failing fail-fast count makes GetUserStats return
StatsAbort(calls) == [err |-> ErrInternalServer, body |-> <<>>, calls |-> calls]

\* the counter a step leaves in the snapshot
StatsCounter(userID, site, faults) == IF site \in faults THEN 0 ELSE StatsQuery(userID, site)

GetUserStats(userID, faults) ==
    LET aborting == {i \in 1..Len(StatsSteps) :
                        StatsSteps[i].site \in faults /\ StatsFailFast(StatsSteps[i].site)}
        last == IF aborting = {} THEN Len(StatsSteps)
                ELSE CHOOSE i \in aborting : \A j \in aborting : i <= j
        calls == [i \in 1..last |->
                    Call(StatsSteps[i].site, StatsSteps[i].repo, StatsSteps[i].method, userID,
                         StatsSteps[i].status, StatsSteps[i].days, StatsSteps[i].limit,
                         StatsSteps[i].site \notin faults)]
        v(site) == StatsCounter(userID, site, faults)
    IN IF aborting # {}
       THEN StatsAbort(calls)
       ELSE [err |-> NoErr,
             body |-> <<[TotalContacts |-> v("stats.totalContacts"),
                         TotalClients |-> v("stats.totalClients"),
                         TotalLeads |-> v("stats.totalLeads"),
                         TotalTasks |-> v("stats.totalTasks"),
                         PendingTasks |-> v("stats.pendingTasks"),
                         CompletedTasks |-> v("stats.totalTasks") - v("stats.pendingTasks"),
                         OverdueTasks |-> v("stats.overdueTasks"),
                         TotalProjects |-> v("stats.totalProjects"),
                         ActiveProjects |-> v("stats.activeProjects"),
                         CompletedProjects |-> v("stats.completedProjects"),
                         TotalInteractions |-> v("stats.totalInteractions"),
                         RecentInteractions |-> v("stats.recentInteractions")]>>,
             calls |-> calls]

(***************************************************************************)
(* userService.GetDashboardData.                                           *)
(***************************************************************************)
DashSites == {"dash.interactions", "dash.projects", "dash.tasks", "dash.contacts"}

DashboardInteraction(interaction) ==
    [ID |-> interaction.ID, Type |-> interaction.Type, Subject |-> interaction.Subject,
     ContactName |-> interaction.Contact.Name, Date |-> interaction.Date]

DashboardProject(project) ==
    [ID |-> project.ID, Name |-> project.Name, Status |-> project.Status,
     ClientName |-> project.Client.Name, CreatedAt |-> project.CreatedAt]

DashboardTask(task) ==
    [ID |-> task.ID, Title |-> task.Title, Priority |-> task.Priority,
     DueDate |-> task.DueDate,
     ContactName |-> IF task.Contact # <<>> THEN task.Contact[1].Name ELSE "",
     ProjectName |-> IF task.Project # <<>> THEN task.Project[1].Name ELSE ""]

DashboardContact(contact) ==
    [ID |-> contact.ID, Name |-> contact.Name, Type |-> contact.Type,
     CreatedAt |-> contact.CreatedAt]

RecentList_Always(ok, projected) == projected

\* if err == nil { for ... append(projection) }: the list stays empty on error
RecentList(ok, projected) == IF ok THEN projected ELSE {<<>>}

DashAbort_Swallowed(err, calls) == [err |-> NoErr, body |-> <<>>, calls |-> calls]

\* if err != nil { return nil, err } after step 1 and after step 2
DashAbort(err, calls) == [err |-> err, body |-> <<>>, calls |-> calls]

GetDashboardData(userID, faults) ==
    LET stats == GetUserStats(userID, faults)
        d1 == Call("dash.interactions", "interactionRepo", "GetByUserID", userID, "", 0, DashboardListLimit,
                   "dash.interactions" \notin faults)
        d2 == Call("dash.projects", "projectRepo", "GetByUserID", userID, ProjectStatusInProgress, 0,
                   DashboardListLimit, "dash.projects" \notin faults)
        d3 == Call("dash.tasks", "taskRepo", "GetByUserID", userID, TaskStatusPending, 0,
                   DashboardListLimit, "dash.tasks" \notin faults)
        d4 == Call("dash.contacts", "contactRepo", "GetByUserID", userID, "", 0, DashboardListLimit,
                   "dash.contacts" \notin faults)
    IN IF stats.err # NoErr
       THEN {DashAbort(stats.err, stats.calls)}
       ELSE UNION {
          IF feed.err # NoErr
          THEN {DashAbort(feed.err, stats.calls \o feed.calls)}
          ELSE {[err |-> NoErr,
                 body |-> <<[Stats |-> stats.body[1],
                             RecentActivities |-> feed.body[1].Activities,
                             RecentProjects |-> rp,
                             RecentInteractions |-> ri,
                             RecentPendingTasks |-> rt,
                             RecentContacts |-> rc]>>,
                 calls |-> stats.calls \o feed.calls \o <<d1, d2, d3, d4>>] :
                   ri \in RecentList(d1.ok,
                            {[i \in 1..Len(rows) |-> DashboardInteraction(rows[i])] : rows \in
                                interactionRepo_GetByUserID(userID,
                                    [Limit |-> DashboardListLimit])}),
                   rp \in RecentList(d2.ok,
                            {[i \in 1..Len(rows) |-> DashboardProject(rows[i])] : rows \in
                                projectRepo_GetByUserID(userID,
                                    [Status |-> ProjectStatusInProgress,
                                     Limit |-> DashboardListLimit])}),
                   rt \in RecentList(d3.ok,
                            {[i \in 1..Len(rows) |-> DashboardTask(rows[i])] : rows \in
                                taskRepo_GetByUserID(userID,
                                    [Status |-> TaskStatusPending,
                                     Limit |-> DashboardListLimit])}),
                   rc \in RecentList(d4.ok,
                            {[i \in 1..Len(rows) |-> DashboardContact(rows[i])] : rows \in
                                contactRepo_GetByUserID(userID,
                                    [Type |-> "", Limit |-> DashboardListLimit])})} :
          feed \in GetRecentActivities(userID, DashboardActivityLimit, faults)}

\* the fault sets a request is exposed to
RECURSIVE FaultSetsUpTo(_, _)
FaultSetsUpTo(sites, k) ==
    IF k = 0 THEN {{}}
    ELSE LET smaller == FaultSetsUpTo(sites, k - 1)
         IN smaller \cup {f \cup {x} : f \in smaller, x \in sites}

\* at most MaxFaults of the calls of one request fail
FaultSets(sites) == FaultSetsUpTo(sites, MaxFaults)

\* the call sites of each repository
ContactSites == {"stats.totalContacts", "stats.totalClients", "stats.totalLeads",
                 "feed.contacts", "dash.contacts"}
TaskSites == {"stats.totalTasks", "stats.pendingTasks", "stats.overdueTasks",
              "feed.tasks", "dash.tasks"}
ProjectSites == {"stats.totalProjects", "stats.activeProjects", "stats.completedProjects",
                 "feed.projects", "dash.projects"}
InteractionSites == {"stats.totalInteractions", "stats.recentInteractions",
                     "feed.interactions", "dash.interactions"}

\* one source fails on every call made to it
SourceDown == {ContactSites, TaskSites, ProjectSites, InteractionSites}

\* a dashboard request sees a few failing calls, any failing recent-items queries,
\* or one source that is down
DashboardFaultSets ==
    FaultSets(StatsSites \cup FeedSites \cup DashSites) \cup (SUBSET DashSites) \cup SourceDown

(***************************************************************************)
(* State machine.                                                          *)
(***************************************************************************)
NoResponse == [op |-> "none", userID |-> 0, limit |-> 0, err |-> NoErr, body |-> <<>>]

Init ==
    /\ contacts = <<>>
    /\ tasks = <<>>
    /\ projects = <<>>
    /\ interactions = <<>>
    /\ now = 0
    /\ resp = NoResponse
    /\ queries = <<>>

\* no response is waiting to be delivered: the service takes the next request
Idle == resp.op = "none"

\* a request is served at the wall-clock time at, which never runs backwards
ServedAt(at) == at \in now..MaxTime /\ now' = at

\* rows stored in the four tables together
RowCount == Len(contacts) + Len(tasks) + Len(projects) + Len(interactions)

\* contactService.Create
CreateContact ==
    Idle /\ \E at \in 0..MaxTime, userID \in Users, name \in ContactNames,
       type \in {ContactTypeClient, ContactTypeLead} :
        /\ ServedAt(at)
        /\ RowCount < MaxRows
        /\ contacts' = Append(contacts,
              [ID |-> Len(contacts) + 1, Name |-> name, Type |-> type, Notes |-> <<>>,
               UserID |-> userID, CreatedAt |-> at, UpdatedAt |-> at])
        /\ resp' = NoResponse
        /\ queries' = <<>>
        /\ UNCHANGED <<tasks, projects, interactions>>

\* contactService.Update with a request that sets only the type
UpdateContact ==
    Idle /\ \E at \in 0..MaxTime, userID \in Users, contactID \in 1..Len(contacts),
       type \in {ContactTypeClient, ContactTypeLead} :
        /\ ServedAt(at)
        /\ queries' = <<>>
        /\ UNCHANGED <<tasks, projects, interactions>>
        /\ IF contacts[contactID].UserID # userID
           THEN /\ resp' = NoResponse
                /\ UNCHANGED contacts
           ELSE /\ contacts' = [contacts EXCEPT ![contactID].Type = type,
                                                ![contactID].UpdatedAt = at]
                /\ resp' = NoResponse

\* the statuses a task request may carry (its validate tag)
TaskStatuses == {TaskStatusPending, TaskStatusCompleted}

\* the associations a request may name: none, or a stored row
Refs(table) == {<<>>} \cup {<<id>> : id \in 1..Len(table)}

\* a named association exists and belongs to another user
Foreign(ref, table, userID) == ref # <<>> /\ table[ref[1]].UserID # userID

\* taskService.Create: the request's status is stored as sent
CreateTask ==
    Idle /\ \E at \in 0..MaxTime, userID \in Users, title \in TaskTitles, dueDate \in DueDates,
       status \in TaskStatuses,
       contactID \in Refs(contacts), projectID \in Refs(projects) :
        /\ ServedAt(at)
        /\ RowCount < MaxRows
        /\ queries' = <<>>
        /\ UNCHANGED <<contacts, projects, interactions>>
        /\ IF Foreign(contactID, contacts, userID) \/ Foreign(projectID, projects, userID)
           THEN /\ resp' = NoResponse
                /\ UNCHANGED tasks
           ELSE /\ tasks' = Append(tasks,
                     [ID |-> Len(tasks) + 1, Title |-> title, Description |-> <<>>,
                      DueDate |-> dueDate, Priority |-> PriorityMedium,
                      Status |-> status, UserID |-> userID,
                      ContactID |-> contactID, ProjectID |-> projectID,
                      CreatedAt |-> at, UpdatedAt |-> at])
                /\ resp' = NoResponse

\* taskService.Update with a request that sets only the status
UpdateTaskStatus(status) ==
    Idle /\ \E at \in 0..MaxTime, userID \in Users, taskID \in 1..Len(tasks) :
        /\ ServedAt(at)
        /\ queries' = <<>>
        /\ UNCHANGED <<contacts, projects, interactions>>
        /\ IF tasks[taskID].UserID # userID
           THEN /\ resp' = NoResponse
                /\ UNCHANGED tasks
           ELSE /\ tasks' = [tasks EXCEPT ![taskID].Status = status,
                                          ![taskID].UpdatedAt = at]
                /\ resp' = NoResponse

\* taskService.MarkAsCompleted
MarkAsCompleted == UpdateTaskStatus(TaskStatusCompleted)

\* taskService.MarkAsPending
MarkAsPending == UpdateTaskStatus(TaskStatusPending)

ProjectStatuses == {ProjectStatusInProgress, ProjectStatusCompleted, ProjectStatusCancelled}

\* the statuses a request may carry: a listed one, or none
ProjectRequestStatuses == ProjectStatuses \cup {""}

\* projectService.Create: the request's status is stored as sent
CreateProject ==
    Idle /\ \E at \in 0..MaxTime, userID \in Users, name \in ProjectNames,
       status \in ProjectRequestStatuses, clientID \in 1..Len(contacts) :
        /\ ServedAt(at)
        /\ RowCount < MaxRows
        /\ queries' = <<>>
        /\ UNCHANGED <<contacts, tasks, interactions>>
        /\ IF contacts[clientID].UserID # userID
           THEN /\ resp' = NoResponse
                /\ UNCHANGED projects
           ELSE IF contacts[clientID].Type # ContactTypeClient
           THEN /\ resp' = NoResponse
                /\ UNCHANGED projects
           ELSE /\ projects' = Append(projects,
                     [ID |-> Len(projects) + 1, Name |-> name, Description |-> <<>>,
                      Status |-> status, UserID |-> userID, ClientID |-> clientID,
                      CreatedAt |-> at, UpdatedAt |-> at])
                /\ resp' = NoResponse

\* projectService.ChangeStatus: projectService.Update with a request that carries
\* only a status; an empty status leaves the stored one, and the row is saved anyway
ChangeStatus ==
    Idle /\ \E at \in 0..MaxTime, userID \in Users, projectID \in 1..Len(projects),
       status \in ProjectRequestStatuses :
        /\ ServedAt(at)
        /\ queries' = <<>>
        /\ UNCHANGED <<contacts, tasks, interactions>>
        /\ IF projects[projectID].UserID # userID
           THEN /\ resp' = NoResponse
                /\ UNCHANGED projects
           ELSE /\ projects' = [projects EXCEPT ![projectID].Status =
                                                    IF status # "" THEN status ELSE @,
                                                ![projectID].UpdatedAt = at]
                /\ resp' = NoResponse

\* how far back a logged interaction is dated: now, or beyond either look-back window
InteractionAges == {0, (StatsWindowDays + 1) * Day, (ActivityWindowDays + 1) * Day}

\* interactionService.Create
CreateInteraction ==
    Idle /\ \E at \in 0..MaxTime, userID \in Users, contactID \in 1..Len(contacts),
       subject \in Subjects, age \in InteractionAges :
        /\ ServedAt(at)
        /\ RowCount < MaxRows
        /\ queries' = <<>>
        /\ UNCHANGED <<contacts, tasks, projects>>
        /\ IF contacts[contactID].UserID # userID
           THEN /\ resp' = NoResponse
                /\ UNCHANGED interactions
           ELSE /\ interactions' = Append(interactions,
                     [ID |-> Len(interactions) + 1, Type |-> InteractionTypeCall,
                      Date |-> at - age, Subject |-> subject, Description |-> <<>>,
                      ContactID |-> contactID, CreatedAt |-> at, UpdatedAt |-> at])
                /\ resp' = NoResponse

\* interactionService.Update with a request that sets only the subject
UpdateInteraction ==
    Idle /\ \E at \in 0..MaxTime, userID \in Users, interactionID \in 1..Len(interactions),
       subject \in Subjects :
        /\ ServedAt(at)
        /\ queries' = <<>>
        /\ UNCHANGED <<contacts, tasks, projects>>
        /\ IF PreloadContact(interactions[interactionID].ContactID).UserID # userID
           THEN /\ resp' = NoResponse
                /\ UNCHANGED interactions
           ELSE /\ interactions' = [interactions EXCEPT ![interactionID].Subject = subject,
                                                        ![interactionID].UpdatedAt = at]
                /\ resp' = NoResponse

GetRecentActivitiesReq_Stamping ==
    /\ Idle
    /\ \E userID \in Users, limit \in Limits, faults \in FaultSets(FeedSites) :
        \E out \in GetRecentActivities(userID, limit, faults) :
            /\ resp' = [op |-> "GetRecentActivities", userID |-> userID, limit |-> limit,
                        err |-> out.err, body |-> out.body]
            /\ queries' = out.calls
            /\ contacts' = [i \in 1..Len(contacts) |->
                               [contacts[i] EXCEPT !.UpdatedAt = now]]
            /\ UNCHANGED <<tasks, projects, interactions, now>>

\* a call of UserService.GetRecentActivities(userID, limit)
GetRecentActivitiesReq ==
    /\ Idle
    /\ \E userID \in Users, limit \in Limits, faults \in FaultSets(FeedSites) :
        \E out \in GetRecentActivities(userID, limit, faults) :
            /\ resp' = [op |-> "GetRecentActivities", userID |-> userID, limit |-> limit,
                        err |-> out.err, body |-> out.body]
            /\ queries' = out.calls
            /\ UNCHANGED <<contacts, tasks, projects, interactions, now>>

\* a call of UserService.GetUserStats(userID)
GetUserStatsReq ==
    /\ Idle
    /\ \E userID \in Users, faults \in FaultSets(StatsSites) :
        LET out == GetUserStats(userID, faults)
        IN /\ resp' = [op |-> "GetUserStats", userID |-> userID, limit |-> 0,
                       err |-> out.err, body |-> out.body]
           /\ queries' = out.calls
           /\ UNCHANGED <<contacts, tasks, projects, interactions, now>>

\* a call of UserService.GetDashboardData(userID)
GetDashboardDataReq ==
    /\ Idle
    /\ \E userID \in Users, faults \in DashboardFaultSets :
        \E out \in GetDashboardData(userID, faults) :
            /\ resp' = [op |-> "GetDashboardData", userID |-> userID, limit |-> 0,
                        err |-> out.err, body |-> out.body]
            /\ queries' = out.calls
            /\ UNCHANGED <<contacts, tasks, projects, interactions, now>>

\* the caller takes the result and the call ends
Respond ==
    /\ ~Idle
    /\ resp' = NoResponse
    /\ queries' = <<>>
    /\ UNCHANGED <<contacts, tasks, projects, interactions, now>>

\* the requests that change the stored records
Write ==
    \/ CreateContact
    \/ UpdateContact
    \/ CreateTask
    \/ MarkAsCompleted
    \/ MarkAsPending
    \/ CreateProject
    \/ ChangeStatus
    \/ CreateInteraction
    \/ UpdateInteraction

Next ==
    \/ Write
    \/ GetRecentActivitiesReq
    \/ GetUserStatsReq
    \/ GetDashboardDataReq
    \/ Respond

Spec == Init /\ [][Next]_vars

\* The three read endpoints do not change the stored records, so each one is
\* also studied alone over the same write workload.
NextFeed == Write \/ GetRecentActivitiesReq \/ Respond

SpecFeed == Init /\ [][NextFeed]_vars

NextStats == Write \/ GetUserStatsReq \/ Respond

SpecStats == Init /\ [][NextStats]_vars

NextDashboard == Write \/ GetDashboardDataReq \/ Respond

SpecDashboard == Init /\ [][NextDashboard]_vars

(***************************************************************************)
(* A user with a backlog of tasks: user 1 created task i at minute         *)
(* 3 (i - 1) and completed the first few two minutes after creating them,  *)
(* so that the feed has more events to offer than the default limit.       *)
(***************************************************************************)
BacklogTask(i, completed) ==
    [ID |-> i, Title |-> "Ligar", Description |-> <<>>, DueDate |-> <<i>>,
     Priority |-> PriorityMedium,
     Status |-> IF completed THEN TaskStatusCompleted ELSE TaskStatusPending,
     UserID |-> 1, ContactID |-> <<>>, ProjectID |-> <<>>,
     CreatedAt |-> 3 * (i - 1),
     UpdatedAt |-> 3 * (i - 1) + (IF completed THEN 2 * Minute ELSE 0)]

InitBacklog ==
    \E n \in 1..MaxBacklog, k \in 0..MaxBacklog :
        /\ k <= n
        /\ tasks = [i \in 1..n |-> BacklogTask(i, i <= k)]
        /\ contacts = <<>>
        /\ projects = <<>>
        /\ interactions = <<>>
        /\ now = 3 * n
        /\ resp = NoResponse
        /\ queries = <<>>

NextBacklog == GetRecentActivitiesReq \/ Respond

SpecBacklog == InitBacklog /\ [][NextBacklog]_vars

(***************************************************************************)
(* Detail truncation: the feed of a user whose single contact carries      *)
(* notes of every length up to MaxChars characters, of one or two bytes.   *)
(***************************************************************************)
\* the text of n characters that repeats the given characters in turn
Repeated(unit, n) == [i \in 1..n |-> unit[((i - 1) % Len(unit)) + 1]]

\* the repeated characters: "a", "é", and both in turn
TextUnits == {<<97>>, <<233>>, <<97, 233>>}

\* the notes a contact may carry
Texts == {Repeated(unit, n) : unit \in TextUnits, n \in 0..MaxChars}

InitTruncate ==
    \E text \in Texts :
        /\ contacts = <<[ID |-> 1, Name |-> "Ana", Type |-> ContactTypeClient,
                         Notes |-> Encode(text), UserID |-> 1,
                         CreatedAt |-> 0, UpdatedAt |-> 0]>>
        /\ tasks = <<>>
        /\ projects = <<>>
        /\ interactions = <<>>
        /\ now = 0
        /\ resp = NoResponse
        /\ queries = <<>>

NextTruncate == GetRecentActivitiesReq \/ Respond

SpecTruncate == InitTruncate /\ [][NextTruncate]_vars

(***************************************************************************)
(* Titles and associations: user 1 with a client and its project, a second *)
(* contact with an interaction, and a task that may name the second        *)
(* contact, the project, both or neither.  The names may be empty: the     *)
(* services store the request's fields as sent.                            *)
(***************************************************************************)
Flags == {FALSE, TRUE}

\* the time a record created at the given time was last saved
SavedAt(createdAt, modified) == IF modified THEN createdAt + 2 * Minute ELSE createdAt

InitRelated ==
    \E contactName \in ContactNames \cup {""}, projectName \in ProjectNames \cup {""},
       title \in TaskTitles \cup {""}, subject \in Subjects \cup {""},
       contactID \in {<<>>, <<2>>}, projectID \in {<<>>, <<1>>},
       status \in TaskStatuses, modified \in Flags :
        /\ contacts = <<[ID |-> 1, Name |-> "Bia", Type |-> ContactTypeClient,
                         Notes |-> <<>>, UserID |-> 1, CreatedAt |-> 0, UpdatedAt |-> 0],
                        [ID |-> 2, Name |-> contactName, Type |-> ContactTypeLead,
                         Notes |-> <<>>, UserID |-> 1,
                         CreatedAt |-> 1, UpdatedAt |-> SavedAt(1, modified)]>>
        /\ projects = <<[ID |-> 1, Name |-> projectName, Description |-> <<>>,
                         Status |-> ProjectStatusInProgress, UserID |-> 1, ClientID |-> 1,
                         CreatedAt |-> 3, UpdatedAt |-> SavedAt(3, modified)]>>
        /\ tasks = <<[ID |-> 1, Title |-> title, Description |-> <<>>, DueDate |-> <<>>,
                      Priority |-> PriorityMedium, Status |-> status, UserID |-> 1,
                      ContactID |-> contactID, ProjectID |-> projectID,
                      CreatedAt |-> 6, UpdatedAt |-> SavedAt(6, modified)]>>
        /\ interactions = <<[ID |-> 1, Type |-> InteractionTypeCall, Date |-> 9,
                             Subject |-> subject, Description |-> <<>>, ContactID |-> 2,
                             CreatedAt |-> 9, UpdatedAt |-> SavedAt(9, modified)]>>
        /\ now = 12
        /\ resp = NoResponse
        /\ queries = <<>>

NextRelated == GetRecentActivitiesReq \/ Respond

SpecRelated == InitRelated /\ [][NextRelated]_vars

(***************************************************************************)
(* GetUserStats under concurrency.  The service issues its count queries   *)
(* one after another with no transaction around them, and the server       *)
(* handles every request in a goroutine of its own.  A call is in flight   *)
(* from StatsBegin to StatsReturn: meanwhile resp.body holds the counts    *)
(* read so far and queries the calls made, and task requests of other      *)
(* goroutines are served between two queries.                              *)
(***************************************************************************)
StatsInFlight == resp.op = "GetUserStats.running"

\* the step of GetUserStats whose query is made at site
StepOf(site) == CHOOSE i \in 1..Len(StatsSteps) : StatsSteps[i].site = site

\* the snapshot GetUserStats builds from the counts its steps have read
UserStatsOf(counts) ==
    LET v(site) == counts[StepOf(site)]
    IN [TotalContacts |-> v("stats.totalContacts"),
        TotalClients |-> v("stats.totalClients"),
        TotalLeads |-> v("stats.totalLeads"),
        TotalTasks |-> v("stats.totalTasks"),
        PendingTasks |-> v("stats.pendingTasks"),
        CompletedTasks |-> v("stats.totalTasks") - v("stats.pendingTasks"),
        OverdueTasks |-> v("stats.overdueTasks"),
        TotalProjects |-> v("stats.totalProjects"),
        ActiveProjects |-> v("stats.activeProjects"),
        CompletedProjects |-> v("stats.completedProjects"),
        TotalInteractions |-> v("stats.totalInteractions"),
        RecentInteractions |-> v("stats.recentInteractions")]

\* a call of UserService.GetUserStats(userID) enters the service
StatsBegin ==
    /\ Idle
    /\ \E userID \in Users :
        resp' = [op |-> "GetUserStats.running", userID |-> userID, limit |-> 0,
                 err |-> NoErr, body |-> <<>>]
    /\ queries' = <<>>
    /\ UNCHANGED <<contacts, tasks, projects, interactions, now>>

\* the call in flight makes its next count query against the store as it is now
StatsQueryStep ==
    /\ StatsInFlight
    /\ Len(queries) < Len(StatsSteps)
    /\ \E ok \in Flags :
        LET step == StatsSteps[Len(queries) + 1]
            calls == Append(queries,
                        Call(step.site, step.repo, step.method, resp.userID,
                             step.status, step.days, step.limit, ok))
        IN /\ ok \/ Cardinality({i \in 1..Len(queries) : ~queries[i].ok}) < MaxFaults
           /\ queries' = calls
           /\ resp' = IF ~ok /\ StatsFailFast(step.site)
                      THEN [resp EXCEPT !.op = "GetUserStats",
                                        !.err = StatsAbort(calls).err,
                                        !.body = StatsAbort(calls).body]
                      ELSE [resp EXCEPT !.body =
                              Append(@, IF ok THEN StatsQuery(resp.userID, step.site) ELSE 0)]
    /\ UNCHANGED <<contacts, tasks, projects, interactions, now>>

\* the call in flight has made every query and returns its snapshot
StatsReturn ==
    /\ StatsInFlight
    /\ Len(queries) = Len(StatsSteps)
    /\ resp' = [resp EXCEPT !.op = "GetUserStats", !.body = <<UserStatsOf(resp.body)>>]
    /\ UNCHANGED <<contacts, tasks, projects, interactions, now, queries>>

\* taskService.Create, served by another goroutine while the call is in flight
ConcurrentCreateTask ==
    /\ StatsInFlight
    /\ \E at \in 0..MaxTime, userID \in Users, title \in TaskTitles, dueDate \in DueDates,
          status \in TaskStatuses :
        /\ ServedAt(at)
        /\ RowCount < MaxRows
        /\ tasks' = Append(tasks,
                     [ID |-> Len(tasks) + 1, Title |-> title, Description |-> <<>>,
                      DueDate |-> dueDate, Priority |-> PriorityMedium,
                      Status |-> status, UserID |-> userID,
                      ContactID |-> <<>>, ProjectID |-> <<>>,
                      CreatedAt |-> at, UpdatedAt |-> at])
    /\ UNCHANGED <<contacts, projects, interactions, resp, queries>>

\* taskService.Update setting the status, served by another goroutine while the
\* call is in flight
ConcurrentUpdateTaskStatus(status) ==
    /\ StatsInFlight
    /\ \E at \in 0..MaxTime, userID \in Users, taskID \in 1..Len(tasks) :
        /\ ServedAt(at)
        /\ tasks[taskID].UserID = userID
        /\ tasks' = [tasks EXCEPT ![taskID].Status = status, ![taskID].UpdatedAt = at]
    /\ UNCHANGED <<contacts, projects, interactions, resp, queries>>

\* taskService.MarkAsCompleted while the call is in flight
ConcurrentMarkAsCompleted == ConcurrentUpdateTaskStatus(TaskStatusCompleted)

\* taskService.MarkAsPending while the call is in flight
ConcurrentMarkAsPending == ConcurrentUpdateTaskStatus(TaskStatusPending)

NextStatsInterleaved ==
    \/ CreateTask
    \/ MarkAsCompleted
    \/ MarkAsPending
    \/ StatsBegin
    \/ StatsQueryStep
    \/ StatsReturn
    \/ ConcurrentCreateTask
    \/ ConcurrentMarkAsCompleted
    \/ ConcurrentMarkAsPending
    \/ Respond

SpecStatsInterleaved == Init /\ [][NextStatsInterleaved]_vars

(***************************************************************************)
(* Properties of userService.GetRecentActivities.                          *)
(***************************************************************************)
FeedResponse == resp.op = "GetRecentActivities"

FeedSucceeded == FeedResponse /\ resp.err = NoErr

FeedActivities == resp.body[1].Activities

\* the call sites whose repository call failed while the pending request ran
FailedSites == {queries[i].site : i \in {j \in 1..Len(queries) : ~queries[j].ok}}

\* the unsorted activity slices the stored records of userID can yield under the
\* over-fetch cap of limit
FeedCandidates(userID, limit) ==
    {DerivedActivities(ir, tr, pr, cr) :
        ir \in interactionRepo_GetRecentByUserID(userID, ActivityWindowDays, 2 * limit),
        tr \in taskRepo_GetByUserID(userID, [Status |-> "", Limit |-> 2 * limit]),
        pr \in projectRepo_GetByUserID(userID, [Status |-> "", Limit |-> 2 * limit]),
        cr \in contactRepo_GetByUserID(userID, [Type |-> "", Limit |-> 2 * limit])}

\* the limit a request's argument stands for
RequestedLimit == IF resp.limit > 0 THEN resp.limit ELSE 20

\* userID owns no contact, task or project and no interaction with a contact of theirs
OwnerHasNoRecords(userID) ==
    /\ \A i \in 1..Len(contacts) : contacts[i].UserID # userID
    /\ \A i \in 1..Len(tasks) : tasks[i].UserID # userID
    /\ \A i \in 1..Len(projects) : projects[i].UserID # userID
    /\ InteractionsOfUser(userID) = {}

\* C1: every successful feed is ordered by CreatedAt descending: for all positions
\* i < j, the event at i is not older than the event at j.
C1_SortedByCreatedAtDescending ==
    FeedSucceeded =>
        \A i, j \in 1..Len(FeedActivities) :
            i < j => FeedActivities[i].CreatedAt >= FeedActivities[j].CreatedAt

\* C1 witness: a feed of events with different timestamps whose records yield them
\* in an order that is not descending, so the sort had to move an event.
C1_Witness ==
    /\ FeedSucceeded
    /\ Len(FeedActivities) >= 2
    /\ FeedActivities[1].CreatedAt > FeedActivities[Len(FeedActivities)].CreatedAt
    /\ \E d \in FeedCandidates(resp.userID, RequestedLimit) :
          \E i, j \in 1..Len(d) : i < j /\ d[i].CreatedAt < d[j].CreatedAt

\* C2 as stated: a successful feed has at most max(limit, 1) events, and none when
\* the owner has no records.
C2_AtMostMaxOfLimitAndOne ==
    FeedSucceeded =>
        /\ Len(FeedActivities) <= (IF resp.limit > 1 THEN resp.limit ELSE 1)
        /\ OwnerHasNoRecords(resp.userID) => Len(FeedActivities) = 0

\* C2 amended: a successful feed has at most limit events when limit is positive
\* and at most 20 when limit is zero or negative, and none when the owner has no
\* records in any of the four sources.
C2_AtMostEffectiveLimit ==
    FeedSucceeded =>
        /\ Len(FeedActivities) <= (IF resp.limit > 0 THEN resp.limit ELSE 20)
        /\ OwnerHasNoRecords(resp.userID) => Len(FeedActivities) = 0

\* C2 witness: a request with a non-positive limit answered with exactly 20 events
\* although the owner's records yield more.
C2_Witness ==
    /\ FeedSucceeded
    /\ resp.limit <= 0
    /\ Len(FeedActivities) = 20
    /\ \E d \in FeedCandidates(resp.userID, 20) : Len(d) > 20

\* C3: when any source query of the feed fails, the call returns an error and no
\* activity list at all.
C3_SourceErrorFailsWholeFeed ==
    (FeedResponse /\ FailedSites # {}) => (resp.err # NoErr /\ resp.body = <<>>)

\* C3 witness: the last source (contacts) fails after the task source returned rows
\* of the owner.
C3_Witness ==
    /\ FeedResponse
    /\ FailedSites = {"feed.contacts"}
    /\ Len(queries) = 4
    /\ \E i \in 1..Len(tasks) : tasks[i].UserID = resp.userID
    /\ resp.err # NoErr

\* C4 as stated: the error of a failed feed identifies the failing source kind, so
\* the same request failing at another source would return a different error.
C4_ErrorIdentifiesSource ==
    (FeedResponse /\ FailedSites # {}) =>
        \A other \in FeedSites \ FailedSites :
            \A out \in GetRecentActivities(resp.userID, resp.limit, {other}) :
                out.err # resp.err

\* C4 amended: a feed that fails because a source failed returns the generic
\* internal-server error (code 500), the same whichever source kind failed; the
\* error does not identify the source.
C4_SameInternalErrorForEverySource ==
    (FeedResponse /\ FailedSites # {}) =>
        /\ resp.err = [Code |-> 500, Message |-> "Erro interno do servidor", Details |-> ""]
        /\ \A other \in FeedSites :
              \A out \in GetRecentActivities(resp.userID, resp.limit, {other}) :
                  out.err = resp.err

\* C4 witness: the task source fails after the interaction source succeeded.
C4_Witness ==
    /\ FeedResponse
    /\ FailedSites = {"feed.tasks"}
    /\ Len(queries) = 2
    /\ resp.err.Code = 500

\* C9: a request with limit <= 0 asks every source for 2 x 20 rows and returns a
\* result that the same request with limit = 20 returns on the same records.
C9_NonPositiveLimitIsTwenty ==
    (FeedResponse /\ resp.limit <= 0) =>
        /\ \A i \in 1..Len(queries) : queries[i].limit = 2 * 20
        /\ [err |-> resp.err, body |-> resp.body, calls |-> queries]
              \in GetRecentActivities(resp.userID, 20, FailedSites)

\* C9 witness: a request with a negative limit whose owner has more than 20 events,
\* answered with the 20 most recent.
C9_Witness ==
    /\ FeedSucceeded
    /\ resp.limit < 0
    /\ resp.body[1].Count = 20
    /\ Len(queries) = 4
    /\ \A d \in FeedCandidates(resp.userID, 20) : Len(d) > 20

\* C10: in every successful feed response Count is the number of elements of
\* Activities, after truncation.
C10_CountIsLength ==
    FeedSucceeded => resp.body[1].Count = Len(resp.body[1].Activities)

\* C10 witness: a response truncated to a positive limit: the owner's records yield
\* more events than the limit and Count is the limit.
C10_Witness ==
    /\ FeedSucceeded
    /\ resp.limit > 0
    /\ resp.body[1].Count = resp.limit
    /\ \A d \in FeedCandidates(resp.userID, resp.limit) : Len(d) > resp.limit

(***************************************************************************)
(* Properties of userService.GetUserStats.                                 *)
(***************************************************************************)
StatsResponse == resp.op = "GetUserStats"

\* the counter of the snapshot that the query made at site feeds
SnapshotCounter(snapshot, site) ==
    CASE site = "stats.totalContacts" -> snapshot.TotalContacts
      [] site = "stats.totalClients" -> snapshot.TotalClients
      [] site = "stats.totalLeads" -> snapshot.TotalLeads
      [] site = "stats.totalTasks" -> snapshot.TotalTasks
      [] site = "stats.pendingTasks" -> snapshot.PendingTasks
      [] site = "stats.overdueTasks" -> snapshot.OverdueTasks
      [] site = "stats.totalProjects" -> snapshot.TotalProjects
      [] site = "stats.activeProjects" -> snapshot.ActiveProjects
      [] site = "stats.completedProjects" -> snapshot.CompletedProjects
      [] site = "stats.totalInteractions" -> snapshot.TotalInteractions
      [] site = "stats.recentInteractions" -> snapshot.RecentInteractions

\* the snapshot carries 0 for the failed queries and the queries' values for the rest
DegradedSnapshot(snapshot, userID, failed) ==
    /\ \A site \in StatsSites :
          SnapshotCounter(snapshot, site) =
              (IF site \in failed THEN 0 ELSE StatsQuery(userID, site))
    /\ snapshot.CompletedTasks = snapshot.TotalTasks - snapshot.PendingTasks

\* the two queries whose failure GetUserStats only logs
DegradableStatsSites == {"stats.overdueTasks", "stats.recentInteractions"}

\* C5 as stated: GetUserStats never returns an error because a query failed: it
\* returns a snapshot in which exactly the counters of the failing queries are 0.
C5_StatsNeverFail ==
    StatsResponse =>
        /\ resp.err = NoErr
        /\ DegradedSnapshot(resp.body[1], resp.userID, FailedSites)

\* C5 amended: only a failing overdue-task count or a failing 7-day interaction
\* query degrades its counter to 0 in an otherwise populated snapshot; a failure of
\* any other count query makes GetUserStats return the internal-server error and
\* no snapshot.
C5_OnlyOverdueAndRecentDegrade ==
    StatsResponse =>
        IF FailedSites \subseteq DegradableStatsSites
        THEN /\ resp.err = NoErr
             /\ DegradedSnapshot(resp.body[1], resp.userID, FailedSites)
        ELSE /\ resp.err = [Code |-> 500, Message |-> "Erro interno do servidor",
                            Details |-> ""]
             /\ resp.body = <<>>

\* C5 witness: the overdue count fails for a user who has an overdue task, and the
\* snapshot reports 0 overdue tasks among its other, non-zero counters.
C5_Witness ==
    /\ StatsResponse
    /\ FailedSites = {"stats.overdueTasks"}
    /\ taskRepo_CountOverdueByUserID(resp.userID) > 0
    /\ resp.err = NoErr
    /\ resp.body[1].OverdueTasks = 0
    /\ resp.body[1].PendingTasks > 0

(***************************************************************************)
(* Properties of userService.GetDashboardData.                             *)
(***************************************************************************)
DashboardResponse == resp.op = "GetDashboardData"

\* a failure at one of these sites makes step 1 or step 2 return an error
AbortingSites == (StatsSites \ DegradableStatsSites) \cup FeedSites

\* the recent-items lists the stored records of userID can yield
RecentInteractionLists(userID) ==
    {[i \in 1..Len(rows) |-> DashboardInteraction(rows[i])] :
        rows \in interactionRepo_GetByUserID(userID, [Limit |-> 5])}

RecentProjectLists(userID) ==
    {[i \in 1..Len(rows) |-> DashboardProject(rows[i])] :
        rows \in projectRepo_GetByUserID(userID,
                    [Status |-> ProjectStatusInProgress, Limit |-> 5])}

RecentTaskLists(userID) ==
    {[i \in 1..Len(rows) |-> DashboardTask(rows[i])] :
        rows \in taskRepo_GetByUserID(userID, [Status |-> TaskStatusPending, Limit |-> 5])}

RecentContactLists(userID) ==
    {[i \in 1..Len(rows) |-> DashboardContact(rows[i])] :
        rows \in contactRepo_GetByUserID(userID, [Type |-> "", Limit |-> 5])}

\* a list is empty when its query failed and a projection of the query's rows otherwise
ListDegradesAt(site, list, projections) ==
    IF site \in FailedSites THEN list = <<>> ELSE list \in projections

\* C6: when the statistics call and the feed call succeed, failures among the four
\* recent-items queries never fail the dashboard: each failing kind's list is empty
\* and each other kind's list is the projection of what its query returned.
C6_ListFailuresDegradeToEmpty ==
    (DashboardResponse /\ FailedSites \cap AbortingSites = {}) =>
        /\ resp.err = NoErr
        /\ ListDegradesAt("dash.interactions", resp.body[1].RecentInteractions,
                          RecentInteractionLists(resp.userID))
        /\ ListDegradesAt("dash.projects", resp.body[1].RecentProjects,
                          RecentProjectLists(resp.userID))
        /\ ListDegradesAt("dash.tasks", resp.body[1].RecentPendingTasks,
                          RecentTaskLists(resp.userID))
        /\ ListDegradesAt("dash.contacts", resp.body[1].RecentContacts,
                          RecentContactLists(resp.userID))

\* C6 witness: the recent-contacts and recent-interactions queries both fail for a
\* user who has a contact and a pending task; the dashboard lists the task.
C6_Witness ==
    /\ DashboardResponse
    /\ FailedSites = {"dash.contacts", "dash.interactions"}
    /\ resp.err = NoErr
    /\ contactRepo_CountByUserID(resp.userID) > 0
    /\ resp.body[1].RecentContacts = <<>>
    /\ resp.body[1].RecentPendingTasks # <<>>

\* C7: when the statistics call or the feed call fails, the dashboard call returns
\* an error and no dashboard, and none of the four recent-items queries is issued.
C7_StatsOrFeedErrorFailsDashboard ==
    (DashboardResponse /\ FailedSites \cap AbortingSites # {}) =>
        /\ resp.err # NoErr
        /\ resp.body = <<>>
        /\ \A i \in 1..Len(queries) : queries[i].site \notin DashSites

\* C7 witness: the last query of the feed fails after the statistics call made all
\* its eleven queries.
C7_Witness ==
    /\ DashboardResponse
    /\ FailedSites = {"feed.contacts"}
    /\ Len(queries) = 15
    /\ resp.err # NoErr
    /\ resp.body = <<>>

\* the contact repository failed on every call made to it and every call to another
\* repository succeeded
ContactSourceDown ==
    /\ \E i \in 1..Len(queries) : queries[i].repo = "contactRepo"
    /\ \A i \in 1..Len(queries) : queries[i].ok <=> queries[i].repo # "contactRepo"

\* C8 as stated: with the contact source failing on every operation and the other
\* sources working, the dashboard is still returned without error, with an empty
\* recent-contacts list.
C8_ContactSourceDownStillDashboard ==
    (DashboardResponse /\ ContactSourceDown) =>
        /\ resp.err = NoErr
        /\ resp.body # <<>>
        /\ resp.body[1].RecentContacts = <<>>

\* C8 amended: with the contact source failing on every operation the dashboard call
\* returns the internal-server error and no dashboard, stopped by the first contact
\* count of its statistics call; a dashboard with an empty recent-contacts list is
\* returned when only the recent-contacts query fails.
C8_ContactSourceDownFailsDashboard ==
    /\ (DashboardResponse /\ ContactSourceDown) =>
          /\ resp.err = [Code |-> 500, Message |-> "Erro interno do servidor",
                         Details |-> ""]
          /\ resp.body = <<>>
          /\ Len(queries) = 1
    /\ (DashboardResponse /\ FailedSites = {"dash.contacts"}) =>
          /\ resp.err = NoErr
          /\ resp.body[1].RecentContacts = <<>>

\* C8 witness: the contact source is down for a user who has a contact and a task;
\* the dashboard call fails.
C8_Witness ==
    /\ DashboardResponse
    /\ ContactSourceDown
    /\ contactRepo_CountByUserID(resp.userID) > 0
    /\ taskRepo_CountByUserID(resp.userID) > 0
    /\ resp.err # NoErr

(***************************************************************************)
(* Properties of the merge, the truncation and the per-record derivation.  *)
(***************************************************************************)
Min(a, b) == IF a < b THEN a ELSE b

\* C11: with N the number of events derived from the fetched rows and L the
\* effective limit, the feed holds exactly min(L, N) of those events, none twice and
\* none invented, and no omitted event is strictly later than a returned one.
C11_FirstMinOfLimitAndTotal ==
    FeedSucceeded =>
        \E d \in FeedCandidates(resp.userID, RequestedLimit) :
            /\ Len(FeedActivities) = Min(RequestedLimit, Len(d))
            /\ Range(FeedActivities) \subseteq Range(d)
            /\ Cardinality(Range(FeedActivities)) = Len(FeedActivities)
            /\ \A e \in Range(d) \ Range(FeedActivities) :
                  \A r \in Range(FeedActivities) : e.CreatedAt <= r.CreatedAt

\* C11 witness: a feed cut to its limit that leaves out a strictly older event of
\* another kind than the one it returns.
C11_Witness ==
    /\ FeedSucceeded
    /\ resp.limit > 0
    /\ Len(FeedActivities) = resp.limit
    /\ \E d \in FeedCandidates(resp.userID, resp.limit) :
          \E e \in Range(d) \ Range(FeedActivities) :
              /\ e.CreatedAt < FeedActivities[Len(FeedActivities)].CreatedAt
              /\ e.Type # FeedActivities[1].Type

\* a successful feed that holds every event of its owner's records: the default
\* limit is in force and the records cannot yield more than 20 events
FullFeed == FeedSucceeded /\ resp.limit <= 0 /\ 3 * RowCount <= 20

\* the events of the feed derived from the record id of the given kind
EventsOf(type, id) ==
    {FeedActivities[i] : i \in {j \in 1..Len(FeedActivities) :
        FeedActivities[j].Type = type /\ FeedActivities[j].ItemID = id}}

\* how many feed positions hold an event of the record
EventCount(type, id) ==
    Cardinality({j \in 1..Len(FeedActivities) :
        FeedActivities[j].Type = type /\ FeedActivities[j].ItemID = id})

\* the stored tasks of the feed's owner
OwnTasks == {tasks[i] : i \in {j \in 1..Len(tasks) : tasks[j].UserID = resp.userID}}

\* C12 as stated: a task whose modification time equals its creation time yields
\* exactly one event, pending or completed, and never an Updated event.
C12_UnmodifiedTaskYieldsOneEvent ==
    FullFeed =>
        \A t \in OwnTasks :
            t.UpdatedAt = t.CreatedAt =>
                /\ EventCount(ActivityTypeTask, t.ID) = 1
                /\ \A e \in EventsOf(ActivityTypeTask, t.ID) : e.Action # ActionUpdated

\* C12 amended: a task whose modification time equals its creation time yields
\* exactly one event (Created) when it is pending and exactly two events (Created
\* and Completed, both stamped with that time) when it is completed, and never an
\* Updated event.
C12_UnmodifiedTaskYieldsCreatedAndCompletion ==
    FullFeed =>
        \A t \in OwnTasks :
            t.UpdatedAt = t.CreatedAt =>
                /\ EventCount(ActivityTypeTask, t.ID) =
                      (IF t.Status = TaskStatusCompleted THEN 2 ELSE 1)
                /\ {e.Action : e \in EventsOf(ActivityTypeTask, t.ID)} =
                      (IF t.Status = TaskStatusCompleted
                       THEN {ActionCreated, ActionCompleted} ELSE {ActionCreated})
                /\ \A e \in EventsOf(ActivityTypeTask, t.ID) : e.CreatedAt = t.CreatedAt

\* C12 witness: the feed of a user with a task completed at its creation time.
C12_Witness ==
    /\ FullFeed
    /\ \E t \in OwnTasks :
          /\ t.UpdatedAt = t.CreatedAt
          /\ t.Status = TaskStatusCompleted
          /\ EventCount(ActivityTypeTask, t.ID) = 2

\* the actions of the record's events stamped with the given time, one per feed position
ActionsAt(type, id, at) ==
    {<<j, FeedActivities[j].Action>> : j \in {k \in 1..Len(FeedActivities) :
        /\ FeedActivities[k].Type = type
        /\ FeedActivities[k].ItemID = id
        /\ FeedActivities[k].CreatedAt = at}}

\* the actions alone
ActionSetAt(type, id, at) == {p[2] : p \in ActionsAt(type, id, at)}

\* C13 as stated: a completed task modified two minutes after its creation yields
\* exactly two events, one Updated and one Completed, both stamped with the
\* modification time.
C13_CompletedTaskYieldsTwoEvents ==
    FullFeed =>
        \A t \in OwnTasks :
            (t.Status = TaskStatusCompleted /\ t.UpdatedAt = t.CreatedAt + 2 * Minute) =>
                /\ EventCount(ActivityTypeTask, t.ID) = 2
                /\ Cardinality(ActionsAt(ActivityTypeTask, t.ID, t.UpdatedAt)) = 2
                /\ ActionSetAt(ActivityTypeTask, t.ID, t.UpdatedAt) =
                      {ActionUpdated, ActionCompleted}

\* C13 amended: a completed task modified two minutes after its creation yields
\* exactly three events: one Created stamped with the creation time, and one
\* Updated and one Completed, both stamped with the modification time.
C13_CompletedTaskYieldsThreeEvents ==
    FullFeed =>
        \A t \in OwnTasks :
            (t.Status = TaskStatusCompleted /\ t.UpdatedAt = t.CreatedAt + 2 * Minute) =>
                /\ EventCount(ActivityTypeTask, t.ID) = 3
                /\ Cardinality(ActionsAt(ActivityTypeTask, t.ID, t.UpdatedAt)) = 2
                /\ ActionSetAt(ActivityTypeTask, t.ID, t.UpdatedAt) =
                      {ActionUpdated, ActionCompleted}
                /\ Cardinality(ActionsAt(ActivityTypeTask, t.ID, t.CreatedAt)) = 1
                /\ ActionSetAt(ActivityTypeTask, t.ID, t.CreatedAt) = {ActionCreated}

\* C13 witness: the feed of a user with a task completed two minutes after its
\* creation, holding three events of that task.
C13_Witness ==
    /\ FullFeed
    /\ \E t \in OwnTasks :
          /\ t.Status = TaskStatusCompleted
          /\ t.UpdatedAt = t.CreatedAt + 2 * Minute
          /\ EventCount(ActivityTypeTask, t.ID) = 3

\* the four kinds of record
Kinds == {ActivityTypeInteraction, ActivityTypeTask, ActivityTypeProject, ActivityTypeContact}

\* the stored rows of one table that belong to the feed's owner
OwnRows(table) == {table[i] : i \in {j \in 1..Len(table) : table[j].UserID = resp.userID}}

\* the stored records of the given kind that belong to the feed's owner
OwnRecords(type) ==
    CASE type = ActivityTypeInteraction -> InteractionsOfUser(resp.userID)
      [] type = ActivityTypeTask -> OwnRows(tasks)
      [] type = ActivityTypeProject -> OwnRows(projects)
      [] type = ActivityTypeContact -> OwnRows(contacts)

\* the record was modified more than one minute after its creation
GuardPassed(r) == r.UpdatedAt > r.CreatedAt + Minute

\* the record is a task whose status is the completed one
CompletedTask(type, r) == type = ActivityTypeTask /\ r.Status = TaskStatusCompleted

\* C14 as stated: a record of any kind that was not modified more than one minute
\* after its creation contributes no event beyond the one of its creation slot.
C14_SecondaryEventsOnlyPastGuard ==
    FullFeed =>
        \A type \in Kinds : \A r \in OwnRecords(type) :
            ~GuardPassed(r) => EventCount(type, r.ID) <= 1

\* C14 amended: a record that was not modified more than one minute after its
\* creation contributes no event beyond the one of its creation slot, except that
\* a completed task contributes its Completed event whatever its modification
\* time: it then yields exactly a Created and a Completed event.
C14_SecondaryEventsOnlyPastGuardButCompletion ==
    FullFeed =>
        \A type \in Kinds : \A r \in OwnRecords(type) :
            ~GuardPassed(r) =>
                IF CompletedTask(type, r)
                THEN /\ EventCount(type, r.ID) = 2
                     /\ {e.Action : e \in EventsOf(type, r.ID)} =
                           {ActionCreated, ActionCompleted}
                ELSE /\ EventCount(type, r.ID) <= 1
                     /\ \A e \in EventsOf(type, r.ID) : e.CreatedAt = r.CreatedAt

\* C14 witness: a feed holding a single event of a record that was modified one
\* minute after its creation, and two events of a completed task modified within
\* the minute.
C14_Witness ==
    /\ FullFeed
    /\ \E type \in Kinds : \E r \in OwnRecords(type) :
          /\ ~CompletedTask(type, r)
          /\ r.UpdatedAt = r.CreatedAt + Minute
          /\ EventCount(type, r.ID) = 1
    /\ \E t \in OwnRecords(ActivityTypeTask) :
          /\ t.Status = TaskStatusCompleted
          /\ ~GuardPassed(t)
          /\ EventCount(ActivityTypeTask, t.ID) = 2

\* how many feed positions hold an event of the task with the given action and time
TaskEventCount(t, action, at) ==
    Cardinality({j \in 1..Len(FeedActivities) :
        /\ FeedActivities[j].Type = ActivityTypeTask
        /\ FeedActivities[j].ItemID = t.ID
        /\ FeedActivities[j].Action = action
        /\ FeedActivities[j].CreatedAt = at})

\* C15 as stated: the event in the creation slot of a completed task has action
\* Completed rather than Created, and that of any other task has action Created.
C15_CreationSlotFoldsCompletion ==
    FullFeed =>
        \A t \in OwnTasks :
            IF t.Status = TaskStatusCompleted
            THEN /\ TaskEventCount(t, ActionCreated, t.CreatedAt) = 0
                 /\ TaskEventCount(t, ActionCompleted, t.CreatedAt) >= 1
            ELSE TaskEventCount(t, ActionCreated, t.CreatedAt) = 1

\* C15 amended: the event in the creation slot of every task, completed or not,
\* has action Created and the creation time; a completed task has in addition
\* one Completed event stamped with its modification time, and any other task
\* has no Completed event.
C15_CreationSlotIsAlwaysCreated ==
    FullFeed =>
        \A t \in OwnTasks :
            /\ TaskEventCount(t, ActionCreated, t.CreatedAt) = 1
            /\ \A e \in EventsOf(ActivityTypeTask, t.ID) :
                  e.Action = ActionCreated => e.CreatedAt = t.CreatedAt
            /\ TaskEventCount(t, ActionCompleted, t.UpdatedAt) =
                  (IF t.Status = TaskStatusCompleted THEN 1 ELSE 0)
            /\ \A e \in EventsOf(ActivityTypeTask, t.ID) :
                  e.Action = ActionCompleted => e.CreatedAt = t.UpdatedAt

\* C15 witness: the feed of a user with a completed task whose creation time
\* carries a Created event and whose later modification time a Completed event.
C15_Witness ==
    /\ FullFeed
    /\ \E t \in OwnTasks :
          /\ t.Status = TaskStatusCompleted
          /\ t.UpdatedAt > t.CreatedAt
          /\ TaskEventCount(t, ActionCreated, t.CreatedAt) = 1
          /\ TaskEventCount(t, ActionCompleted, t.UpdatedAt) = 1

\* the records of the given kind that the feed's queries return when none is cut
\* off by a fetch limit: every own task, project and contact, and the own
\* interactions dated within the look-back window
FetchedRecords(type) ==
    IF type = ActivityTypeInteraction
    THEN {i \in InteractionsOfUser(resp.userID) : i.Date >= now - ActivityWindowDays * Day}
    ELSE OwnRecords(type)

\* how many feed positions hold a Created event of the record
CreatedCount(type, id) ==
    Cardinality({j \in 1..Len(FeedActivities) :
        /\ FeedActivities[j].Type = type
        /\ FeedActivities[j].ItemID = id
        /\ FeedActivities[j].Action = ActionCreated})

\* C16: the events derived from the fetched records hold exactly one event with
\* action Created for each fetched record; a feed cut to its limit holds at most
\* one.
C16_ExactlyOneCreatedPerRecord ==
    /\ FullFeed =>
          \A type \in Kinds : \A r \in FetchedRecords(type) : CreatedCount(type, r.ID) = 1
    /\ FeedSucceeded =>
          \A type \in Kinds : \A r \in OwnRecords(type) : CreatedCount(type, r.ID) <= 1

\* C16 witness: a feed holding two events of a completed project, exactly one of
\* them Created, and exactly one Created event of a second fetched record.
C16_Witness ==
    /\ FullFeed
    /\ \E p \in FetchedRecords(ActivityTypeProject) :
          /\ p.Status = ProjectStatusCompleted
          /\ EventCount(ActivityTypeProject, p.ID) = 2
          /\ CreatedCount(ActivityTypeProject, p.ID) = 1
    /\ \E type \in Kinds \ {ActivityTypeProject} : \E r \in FetchedRecords(type) :
          CreatedCount(type, r.ID) = 1

\* the action that the status of a modified project stands for
ProjectStatusAction(status) ==
    CASE status = ProjectStatusInProgress -> ActionStarted
      [] status = ProjectStatusCompleted -> ActionCompleted
      [] status = ProjectStatusCancelled -> ActionCancelled
      [] OTHER -> ActionUpdated

\* the feed positions that hold an event of the project other than a Created one
ProjectSecondary(p) ==
    {j \in 1..Len(FeedActivities) :
        /\ FeedActivities[j].Type = ActivityTypeProject
        /\ FeedActivities[j].ItemID = p.ID
        /\ FeedActivities[j].Action # ActionCreated}

\* C17: a project contributes at most one event besides its Created event, and
\* the action of that event is Started, Completed or Cancelled when the status is
\* in progress, completed or cancelled, and Updated for any other status.
C17_ProjectSecondaryEventByStatus ==
    FeedSucceeded =>
        \A p \in OwnRecords(ActivityTypeProject) :
            /\ Cardinality(ProjectSecondary(p)) <= 1
            /\ \A j \in ProjectSecondary(p) :
                  FeedActivities[j].Action = ProjectStatusAction(p.Status)
            /\ FullFeed => (Cardinality(ProjectSecondary(p)) = 1 <=> GuardPassed(p))

\* C17 witness: a feed holding the Updated event of a modified project whose
\* status is none of the three listed ones.
C17_Witness ==
    /\ FullFeed
    /\ \E p \in OwnRecords(ActivityTypeProject) :
          /\ p.Status \notin ProjectStatuses
          /\ \E j \in ProjectSecondary(p) : FeedActivities[j].Action = ActionUpdated

\* C17 witness of the listed statuses: a feed holding the Cancelled event of a
\* cancelled project.
C17_WitnessListed ==
    /\ FullFeed
    /\ \E p \in OwnRecords(ActivityTypeProject) :
          /\ p.Status = ProjectStatusCancelled
          /\ \E j \in ProjectSecondary(p) : FeedActivities[j].Action = ActionCancelled

\* C18: every event carries the creation time of its record when it is the
\* record's creation event and the record's modification time otherwise; the
\* creation event of a record does not come after any other event of the record.
C18_OccurredAtByEventSlot ==
    FeedSucceeded =>
        \A type \in Kinds : \A r \in OwnRecords(type) : \A e \in EventsOf(type, r.ID) :
            /\ e.Action = ActionCreated => e.CreatedAt = r.CreatedAt
            /\ e.Action # ActionCreated => e.CreatedAt = r.UpdatedAt /\ e.CreatedAt >= r.CreatedAt

\* C18 witness: a feed holding, of one contact modified two minutes after its
\* creation, the Created event at the creation time and the Updated event at the
\* modification time.
C18_Witness ==
    /\ FullFeed
    /\ \E r \in OwnRecords(ActivityTypeContact) :
          /\ r.UpdatedAt = r.CreatedAt + 2 * Minute
          /\ \E e \in EventsOf(ActivityTypeContact, r.ID) :
                e.Action = ActionCreated /\ e.CreatedAt = r.CreatedAt
          /\ \E e \in EventsOf(ActivityTypeContact, r.ID) :
                e.Action = ActionUpdated /\ e.CreatedAt = r.UpdatedAt

\* the text that a Go string holds, as the code points that ranging over it
\* yields: a byte that starts no well-formed sequence yields U+FFFD
RECURSIVE Decode(_)
Decode(bytes) ==
    IF bytes = <<>> THEN <<>>
    ELSE IF bytes[1] < 128 THEN <<bytes[1]>> \o Decode(Tail(bytes))
    ELSE IF bytes[1] \in 194..223 /\ Len(bytes) >= 2 /\ bytes[2] \in 128..191
    THEN <<(bytes[1] - 192) * 64 + (bytes[2] - 128)>> \o Decode(Tail(Tail(bytes)))
    ELSE <<65533>> \o Decode(Tail(bytes))

\* the notes of the single contact and the detail of its event in the feed
TruncationInput == contacts[1].Notes
TruncationOutput == FeedActivities[1].Detail
TruncationServed == FeedSucceeded /\ Len(contacts) = 1 /\ Len(FeedActivities) = 1

\* C19 as stated: a detail of at most 100 characters is returned unchanged, and a
\* longer one is returned as its first 97 characters followed by "...", a text of
\* exactly 100 characters.
C19_TruncatesToHundredCharacters ==
    TruncationServed =>
        LET text == Decode(TruncationInput)
            out == Decode(TruncationOutput)
        IN IF Len(text) <= DetailMaxLength
           THEN TruncationOutput = TruncationInput
           ELSE /\ out = SubSeq(text, 1, DetailMaxLength - 3) \o Decode(Ellipsis)
                /\ Len(out) = DetailMaxLength

\* the same statement of bytes: a detail of at most 100 bytes is returned
\* unchanged, and a longer one as its first 97 bytes followed by "...", 100 bytes
TruncatesToHundredBytes ==
    TruncationServed =>
        IF Len(TruncationInput) <= DetailMaxLength
        THEN TruncationOutput = TruncationInput
        ELSE /\ TruncationOutput = SubSeq(TruncationInput, 1, DetailMaxLength - 3) \o Ellipsis
             /\ Len(TruncationOutput) = DetailMaxLength

\* a detail cut in the middle of a two-byte character
CutInsideCharacter ==
    /\ TruncationServed
    /\ Len(Decode(TruncationInput)) <= DetailMaxLength
    /\ TruncationOutput # TruncationInput
    /\ \E i \in 1..Len(Decode(TruncationOutput)) : Decode(TruncationOutput)[i] = 65533

\* the repository method only reads: a list, a get or a count
ReadMethod(method) ==
    \/ SubSeq(method, 1, 3) = "Get"
    \/ SubSeq(method, 1, 5) = "Count"

\* this step serves a call of GetRecentActivities or of GetDashboardData
FeedOrDashboardServed ==
    Idle /\ resp'.op \in {"GetRecentActivities", "GetDashboardData"}

\* C20: a call of GetRecentActivities or of GetDashboardData, successful or
\* failed, invokes only list, get and count operations of the repositories and
\* leaves the contents of the four sources as they were before the call.
C20_ReadsLeaveSourcesUnchanged ==
    [][FeedOrDashboardServed =>
          /\ UNCHANGED <<contacts, tasks, projects, interactions>>
          /\ \A i \in 1..Len(queries') : ReadMethod(queries'[i].method)]_vars

\* C20 witness: a failed call of GetDashboardData over stored records, after the
\* queries it made.
C20_Witness ==
    /\ resp.op = "GetDashboardData"
    /\ resp.err # NoErr
    /\ RowCount = MaxRows
    /\ Len(queries) > 1

\* where the stable descending sort puts element i of d: after every later
\* element and after the earlier elements of the same instant
StablePosition(d, i) ==
    Cardinality({j \in 1..Len(d) : d[j].CreatedAt > d[i].CreatedAt})
    + Cardinality({j \in 1..i : d[j].CreatedAt = d[i].CreatedAt})

\* d sorted by CreatedAt, latest first, equal instants in their order in d
StableSorted(d) ==
    [p \in 1..Len(d) |-> d[CHOOSE i \in 1..Len(d) : StablePosition(d, i) = p]]

\* C21: the feed is the stable sort of the concatenation of the events of the
\* fetched interactions, tasks, projects and contacts, cut to the limit: events
\* of the same instant keep the order they have in the concatenation.
C21_SortIsStable ==
    FeedSucceeded =>
        \E d \in FeedCandidates(resp.userID, RequestedLimit) :
            FeedActivities = Take(StableSorted(d), RequestedLimit)

\* a feed in which the Completed event of a task precedes the Updated event of
\* the same task and instant, which the loop over tasks emits first
CompletedBeforeUpdated ==
    /\ FeedSucceeded
    /\ \E i, j \in 1..Len(FeedActivities) :
          /\ i < j
          /\ FeedActivities[i].Type = ActivityTypeTask
          /\ FeedActivities[j].Type = ActivityTypeTask
          /\ FeedActivities[i].ItemID = FeedActivities[j].ItemID
          /\ FeedActivities[i].CreatedAt = FeedActivities[j].CreatedAt
          /\ FeedActivities[i].Action = ActionCompleted
          /\ FeedActivities[j].Action = ActionUpdated

\* C22: a completed task modified more than one minute after its creation
\* contributes an Updated event and a distinct Completed event, both stamped
\* with the modification time, and both are among the derived events.
C22_UpdatedAndCompletedBothEmitted ==
    FullFeed =>
        \A t \in OwnTasks :
            (t.Status = TaskStatusCompleted /\ GuardPassed(t)) =>
                /\ TaskEventCount(t, ActionUpdated, t.UpdatedAt) = 1
                /\ TaskEventCount(t, ActionCompleted, t.UpdatedAt) = 1
                /\ \A e \in EventsOf(ActivityTypeTask, t.ID) :
                      e.Action \in {ActionUpdated, ActionCompleted} => e.CreatedAt = t.UpdatedAt

\* C22 witness: a feed with two distinct positions holding the Updated and the
\* Completed event of one task, at the same instant.
C22_Witness ==
    /\ FullFeed
    /\ \E i, j \in 1..Len(FeedActivities) :
          /\ i # j
          /\ FeedActivities[i].Type = ActivityTypeTask
          /\ FeedActivities[j].Type = ActivityTypeTask
          /\ FeedActivities[i].ItemID = FeedActivities[j].ItemID
          /\ FeedActivities[i].Action = ActionUpdated
          /\ FeedActivities[j].Action = ActionCompleted
          /\ FeedActivities[i].CreatedAt = FeedActivities[j].CreatedAt

\* how many feed positions hold an event of the record with the given action
ActionCount(type, id, action) ==
    Cardinality({j \in 1..Len(FeedActivities) :
        /\ FeedActivities[j].Type = type
        /\ FeedActivities[j].ItemID = id
        /\ FeedActivities[j].Action = action})

\* C23: a fetched interaction or contact contributes exactly one Created event
\* and exactly one Updated event if it was modified more than one minute after
\* its creation, none otherwise; it contributes no event of another action.
C23_InteractionAndContactEvents ==
    FullFeed =>
        \A type \in {ActivityTypeInteraction, ActivityTypeContact} :
            \A r \in FetchedRecords(type) :
                /\ ActionCount(type, r.ID, ActionCreated) = 1
                /\ ActionCount(type, r.ID, ActionUpdated) = (IF GuardPassed(r) THEN 1 ELSE 0)
                /\ EventCount(type, r.ID) = (IF GuardPassed(r) THEN 2 ELSE 1)
                /\ \A e \in EventsOf(type, r.ID) : e.Action \in {ActionCreated, ActionUpdated}

\* C23 witness: a feed holding the Created and the Updated event of an interaction
\* modified two minutes after it was logged, and the single event of its contact.
C23_Witness ==
    /\ FullFeed
    /\ \E r \in FetchedRecords(ActivityTypeInteraction) :
          /\ GuardPassed(r)
          /\ EventCount(ActivityTypeInteraction, r.ID) = 2
    /\ \E c \in FetchedRecords(ActivityTypeContact) :
          /\ ~GuardPassed(c)
          /\ EventCount(ActivityTypeContact, c.ID) = 1

\* C24: in every event of the feed, relatedId and relatedName are both set or
\* both unset.
C24_RelatedIdAndNameTogether ==
    FeedSucceeded =>
        \A i \in 1..Len(FeedActivities) :
            (FeedActivities[i].RelatedID # <<>>) <=> (FeedActivities[i].RelatedName # <<>>)

\* the same statement of the events of tasks, projects and contacts only
RelatedTogetherButInteractions ==
    FeedSucceeded =>
        \A i \in 1..Len(FeedActivities) :
            FeedActivities[i].Type # ActivityTypeInteraction =>
                ((FeedActivities[i].RelatedID # <<>>) <=> (FeedActivities[i].RelatedName # <<>>))

\* an event of an interaction that names its contact by id only
RelatedIdWithoutName ==
    /\ FeedSucceeded
    /\ \E i \in 1..Len(FeedActivities) :
          /\ FeedActivities[i].Type = ActivityTypeInteraction
          /\ FeedActivities[i].RelatedID # <<>>
          /\ FeedActivities[i].RelatedName = <<>>

\* the task of SpecRelated's user and the events of the feed derived from it
TheTask == tasks[1]
TaskEvents == EventsOf(ActivityTypeTask, TheTask.ID)

\* the event names the record by id and name
RefersTo(e, id, name) == e.RelatedID = <<id>> /\ e.RelatedName = <<name>>

\* the task carries the association and the associated record has a name
NamedContact ==
    /\ TheTask.ContactID # <<>>
    /\ contacts[TheTask.ContactID[1]].Name # ""
NamedProject ==
    /\ TheTask.ProjectID # <<>>
    /\ projects[TheTask.ProjectID[1]].Name # ""

\* C25 as stated: every event of a task that carries a contact association
\* refers to the contact, and an event refers to the project only when the task
\* carries no contact association.
C25_ContactWheneverPresent ==
    (FeedSucceeded /\ Len(tasks) = 1) =>
        \A e \in TaskEvents :
            /\ TheTask.ContactID # <<>> => e.RelatedID = TheTask.ContactID
            /\ (TheTask.ProjectID # <<>> /\ e.RelatedID = TheTask.ProjectID) =>
                  TheTask.ContactID = <<>>

\* C25 amended: every event of a task refers to the task's contact when the
\* contact is loaded with a non-empty name; otherwise to the task's project when
\* the project is loaded with a non-empty name; otherwise to nothing.
C25_NamedContactThenNamedProject ==
    (FeedSucceeded /\ Len(tasks) = 1) =>
        \A e \in TaskEvents :
            IF NamedContact
            THEN RefersTo(e, TheTask.ContactID[1], contacts[TheTask.ContactID[1]].Name)
            ELSE IF NamedProject
            THEN RefersTo(e, TheTask.ProjectID[1], projects[TheTask.ProjectID[1]].Name)
            ELSE e.RelatedID = <<>> /\ e.RelatedName = <<>>

\* C25 witness: the feed holds several events of a task that names a contact and
\* a project, both with a name, and each event refers to the contact.
C25_Witness ==
    /\ FullFeed
    /\ Len(tasks) = 1
    /\ NamedContact
    /\ NamedProject
    /\ Cardinality(TaskEvents) >= 2
    /\ \A e \in TaskEvents : e.RelatedID = TheTask.ContactID

\* a task that names a contact without a name, and whose events refer to its project
UnnamedContactYieldsToProject ==
    /\ FeedSucceeded
    /\ Len(tasks) = 1
    /\ TheTask.ContactID # <<>>
    /\ TaskEvents # {}
    /\ \A e \in TaskEvents : e.RelatedID = TheTask.ProjectID /\ e.RelatedID # <<>>

\* the title field of a record of the given kind
TitleField(type, r) ==
    CASE type = ActivityTypeInteraction -> r.Subject
      [] type = ActivityTypeTask -> r.Title
      [] type = ActivityTypeProject -> r.Name
      [] type = ActivityTypeContact -> r.Name

\* the title given to the events of a record of the given kind that has none
Placeholder(type) ==
    CASE type = ActivityTypeInteraction -> "Interação sem assunto"
      [] type = ActivityTypeTask -> "Tarefa sem título"
      [] type = ActivityTypeProject -> "Projeto sem nome"
      [] type = ActivityTypeContact -> "Contato sem nome"

\* C27: no event has an empty title: every event of a record carries the
\* placeholder of its kind when the record's title field is empty, and the
\* record's title unchanged otherwise, the same for all events of the record.
C27_TitleOrPlaceholder ==
    FeedSucceeded =>
        /\ \A i \in 1..Len(FeedActivities) : FeedActivities[i].Title # ""
        /\ \A type \in Kinds : \A r \in OwnRecords(type) : \A e \in EventsOf(type, r.ID) :
              e.Title = (IF TitleField(type, r) = "" THEN Placeholder(type)
                         ELSE TitleField(type, r))

\* C27 witness: the feed holds two events of a project without a name, both
\* with the placeholder, and an event of a contact with its name.
C27_Witness ==
    /\ FullFeed
    /\ \E p \in OwnRecords(ActivityTypeProject) :
          /\ p.Name = ""
          /\ EventCount(ActivityTypeProject, p.ID) = 2
          /\ \A e \in EventsOf(ActivityTypeProject, p.ID) : e.Title = "Projeto sem nome"
    /\ \E c \in OwnRecords(ActivityTypeContact) :
          /\ c.Name # ""
          /\ \E e \in EventsOf(ActivityTypeContact, c.ID) : e.Title = c.Name

\* how many events of the given kind the unsorted slice d holds
KindCount(d, type) == Cardinality({i \in 1..Len(d) : d[i].Type = type})

\* how many records of the given kind the events of d derive from
KindRecords(d, type) == Cardinality({d[i].ItemID : i \in {j \in 1..Len(d) : d[j].Type = type}})

\* the most events one record of the given kind yields
EventsPerRecord(type) == IF type = ActivityTypeTask THEN 3 ELSE 2

\* C26 as stated: of each kind, at most 2 x limit events enter the merge.
C26_AtMostTwiceLimitEventsPerKind ==
    FeedSucceeded =>
        \A d \in FeedCandidates(resp.userID, RequestedLimit) : \A type \in Kinds :
            KindCount(d, type) <= 2 * RequestedLimit

\* C26 amended: every query of the call carries the cap 2 x limit, so of each
\* kind at most 2 x limit records are fetched; the events that enter the merge
\* are at most two per fetched interaction, project and contact and three per
\* fetched task, that is 4 x limit and 6 x limit events.
C26_AtMostTwiceLimitRecordsPerKind ==
    FeedSucceeded =>
        /\ \A i \in 1..Len(queries) : queries[i].limit = 2 * RequestedLimit
        /\ \A d \in FeedCandidates(resp.userID, RequestedLimit) : \A type \in Kinds :
              /\ KindRecords(d, type) <= 2 * RequestedLimit
              /\ KindCount(d, type) <= EventsPerRecord(type) * KindRecords(d, type)

\* C26 witness: a call with limit 1 for a user with more than two tasks: two
\* tasks are fetched and six task events enter the merge.
C26_Witness ==
    /\ FeedSucceeded
    /\ resp.limit = 1
    /\ Len(tasks) > 2
    /\ \E d \in FeedCandidates(resp.userID, RequestedLimit) :
          /\ KindRecords(d, ActivityTypeTask) = 2
          /\ KindCount(d, ActivityTypeTask) = 6

\* the stored records that userID owns: own contacts, tasks and projects, and
\* the interactions with own contacts
OwnedBy(userID) ==
    <<{c \in Range(contacts) : c.UserID = userID},
      {t \in Range(tasks) : t.UserID = userID},
      {p \in Range(projects) : p.UserID = userID},
      {i \in Range(interactions) :
          \E c \in Range(contacts) : c.ID = i.ContactID /\ c.UserID = userID}>>

\* everything the three calls can return to userID from the stored records
ResultsFor(userID) ==
    <<[limit \in Limits |-> GetRecentActivities(userID, limit, {})],
      GetUserStats(userID, {}),
      GetDashboardData(userID, {})>>

\* this step changes stored records, none of them owned by userID, at one instant
OtherOwnersOnly(userID) ==
    /\ <<contacts, tasks, projects, interactions>>' # <<contacts, tasks, projects, interactions>>
    /\ OwnedBy(userID)' = OwnedBy(userID)
    /\ now' = now

\* C28: every query of a call carries the caller's identifier, and what the three
\* calls return to an owner is the same on two stores that differ only in records
\* of other owners.
C28_ResultsDependOnOwnRecordsOnly ==
    [][/\ \A i \in 1..Len(queries') : queries'[i].userID = resp'.userID
       /\ \A userID \in Users :
             OtherOwnersOnly(userID) => ResultsFor(userID)' = ResultsFor(userID)]_vars

\* C28 witness: a feed served to an owner, with events, while the store also
\* holds a record of another owner.
C28_Witness ==
    /\ FeedSucceeded
    /\ Len(FeedActivities) > 0
    /\ \E other \in Users \ {resp.userID} : OwnedBy(other) # <<{}, {}, {}, {}>>

\* the instants of the events that a record gives rise to: its creation, and its
\* modification when that came more than one minute later
EventTimes(r) == {r.CreatedAt} \cup (IF GuardPassed(r) THEN {r.UpdatedAt} ELSE {})

\* C29: the feed holds the owner's most recent activity: no record of the owner
\* has a creation or modification event later than every event of the feed.
C29_MostRecentActivityReturned ==
    FeedSucceeded =>
        \A type \in Kinds : \A r \in OwnRecords(type) : \A at \in EventTimes(r) :
            \E i \in 1..Len(FeedActivities) : FeedActivities[i].CreatedAt >= at

\* a feed cut to its limit, all of whose events are older than the creation of
\* the owner's latest task, which the task query did not fetch
LatestTaskNotFetched ==
    /\ FeedSucceeded
    /\ Len(FeedActivities) = RequestedLimit
    /\ \E t \in OwnRecords(ActivityTypeTask) :
          /\ EventCount(ActivityTypeTask, t.ID) = 0
          /\ \A i \in 1..Len(FeedActivities) : FeedActivities[i].CreatedAt < t.CreatedAt

\* the snapshot of a GetUserStats call that returned one
StatsSnapshotReturned == StatsResponse /\ resp.err = NoErr /\ Len(resp.body) = 1

\* C30: in every snapshot GetUserStats returns, CompletedTasks is non-negative
\* and PendingTasks + CompletedTasks = TotalTasks, also when other requests
\* create tasks or change task status between the total-count query and the
\* pending-count query of the call.
C30_TaskCountersConsistent ==
    StatsSnapshotReturned =>
        /\ resp.body[1].CompletedTasks >= 0
        /\ resp.body[1].PendingTasks + resp.body[1].CompletedTasks = resp.body[1].TotalTasks

\* the part of C30 the subtraction guarantees whatever the interleaving
TaskCountersAddUp ==
    StatsSnapshotReturned =>
        resp.body[1].PendingTasks + resp.body[1].CompletedTasks = resp.body[1].TotalTasks

\* a snapshot whose pending count, read after a task was created, exceeds its total
NegativeCompletedTasks ==
    StatsSnapshotReturned /\ queries[StepOf("stats.totalTasks")].ok
        /\ queries[StepOf("stats.pendingTasks")].ok
        /\ resp.body[1].CompletedTasks < 0

====
